---- MODULE Spec2Model ----
(***************************************************************************)
(* Slip workflow of the inventory / point-of-sale backend: the slips       *)
(* router (create, cancel, update, delete), the Item collection it reads   *)
(* and increments, and the Income collection it mirrors slips into.        *)
(*                                                                         *)
(* Conventions of the model                                                *)
(*  - a quantity is kept in HALF units (5 stands for 2.5), so that the     *)
(*    difference between a raw request quantity and parseInt of it is      *)
(*    visible; Whole(n) is the whole number n;                             *)
(*  - a text (product name, SKU, note) is a sequence of tokens; <<>> is    *)
(*    the empty string;                                                    *)
(*  - a JSON number field of a request is a tagged value: Num(n), Null     *)
(*    (absent/undefined), NaNStr (a string parseFloat makes NaN of) or     *)
(*    NumPrefixStr(n) (a string such as "12abc" that parseFloat reads as   *)
(*    n);                                                                  *)
(*  - a Date is the value of the logical clock, 0 standing for null;       *)
(*  - every handler runs as one transaction: it computes on a working      *)
(*    copy of the three collections and either commits the copy or         *)
(*    aborts and keeps the collections it started from.                    *)
(***************************************************************************)
EXTENDS Integers, Sequences, FiniteSets, TLC

VARIABLES
  items,     \* the Item collection, in insertion order
  slips,     \* the Slip collection: slip id -> document
  incomes,   \* the Income collection, in insertion order
  nextId,    \* the id the next created slip gets
  clock,     \* logical time: the value "new Date()" gives to the running request
  last,      \* the request handled last, its response, and the stock before it
  prev,      \* the same for the request before that
  soldFrom,  \* history: for each slip line, the Item whose stock was taken for it
  pricing,   \* a request line on its own and what the pricing of Create makes of it
  conc       \* requests in flight when handlers interleave: transactions, versions

vars == <<items, slips, incomes, nextId, clock, last, prev, soldFrom, pricing, conc>>

(***************************************************************************)
(* Bounds                                                                  *)
(***************************************************************************)
MaxOps == 3

\* the largest whole quantity a line priced on its own asks for
MaxQuantity == 11

\* the number of Create requests that can be in flight together
MaxSessions == 2

(***************************************************************************)
(* Values                                                                  *)
(***************************************************************************)
Whole(n) == 2 * n

Num(n) == [kind |-> "num", v |-> n]
Null == [kind |-> "null", v |-> 0]
NaNStr == [kind |-> "str", v |-> 0]

\* a string that starts with the digits of n and goes on with other characters
NumPrefixStr(n) == [kind |-> "prefix", v |-> n]

IsNum(x) == x.kind = "num"

\* !isNaN(parseFloat(x)): parseFloat reads the longest numeric prefix
ParsesAsNumber(x) == x.kind \in {"num", "prefix"}

Undef == "undefined"

\* a maximum that is its second argument: Math.max(0, x) without the clamp
MaxNoClamp(a, b) == b

Max(a, b) == IF a >= b THEN a ELSE b

\* parseInt of a non-negative or negative number kept in half units:
\* truncation toward zero, result again in half units
ParseInt(q) == IF q >= 0 THEN 2 * (q \div 2) ELSE 0 - 2 * ((0 - q) \div 2)

\* quantity (half units) times a price
Times(q, price) == (q * price) \div 2

Lower(c) ==
  CASE c = "A" -> "a"
    [] c = "B" -> "b"
    [] c = "C" -> "c"
    [] OTHER -> c

LowerText(t) == [i \in 1..Len(t) |-> Lower(t[i])]

\* the regular expression built from a text: group parentheses are syntax,
\* every other token of the model's alphabet matches itself
RegexBody(t) == SelectSeq(LowerText(t), LAMBDA c : c \notin {"(", ")"})

\* new RegExp(`^${pattern}$`, 'i').test(text)
MatchesExact(text, pattern) == LowerText(text) = RegexBody(pattern)

\* new RegExp(pattern, 'i').test(text)
MatchesAnywhere(text, pattern) ==
  LET b == RegexBody(pattern)
      t == LowerText(text)
  IN  \E i \in 1..(Len(t) + 1) :
        /\ i + Len(b) - 1 <= Len(t)
        /\ SubSeq(t, i, i + Len(b) - 1) = b

(***************************************************************************)
(* Item collection: a sequence of documents in insertion order; findOne    *)
(* returns the first document that matches.  0 stands for "no document".   *)
(***************************************************************************)
NoFields == [f \in {} |-> ""]

Opt(f, v) == IF v # "" THEN f :> v ELSE NoFields

\* { isActive: true } or { isActive: { $exists: false } }
ActiveOrMissing(it) == it.isActive \in {"true", "absent"}

\* { isActive: { $ne: false } }
ActiveNotFalse(it) == it.isActive # "false"

\* { isActive: true }
ActiveTrue(it) == it.isActive = "true"

FirstIndex(S) == IF S = {} THEN 0 ELSE CHOOSE i \in S : \A j \in S : i <= j

\* the attribute part of the query built from a request line or a slip line
TypeFields(p) ==
  IF p.productType = "Cover" /\ p.coverType # ""
    THEN "coverType" :> p.coverType
  ELSE IF p.productType = "Plate"
    THEN Opt("bikeName", p.bikeName) @@ Opt("plateCompany", p.plateCompany)
           @@ Opt("plateType", p.plateType)
  ELSE IF p.productType = "Form"
    THEN Opt("formCompany", p.formCompany) @@ Opt("formType", p.formType)
           @@ Opt("formVariant", p.formVariant) @@ Opt("bikeName", p.bikeName)
  ELSE NoFields

AttributeQuery(p) ==
  ("productType" :> (IF p.productType # "" THEN p.productType ELSE "Cover"))
    @@ TypeFields(p)

MatchesQuery(it, q) == \A f \in DOMAIN q : it[f] = q[f]

\* Item.findOne(query) of the create handler
FindByAttributes(its, p) ==
  FirstIndex({i \in 1..Len(its) :
                MatchesQuery(its[i], AttributeQuery(p)) /\ ActiveOrMissing(its[i])})

NameOrSkuExact(it, name) == MatchesExact(it.name, name) \/ MatchesExact(it.sku, name)

NameOrSkuAnywhere(it, name) ==
  MatchesAnywhere(it.name, name) \/ MatchesAnywhere(it.sku, name)

\* name/SKU fallback of the create handler
FindByNameForCreate(its, name) ==
  FirstIndex({i \in 1..Len(its) : NameOrSkuExact(its[i], name) /\ ActiveOrMissing(its[i])})

\* name/SKU lookup of the cancel and delete handlers
FindByNameForRestore(its, name) ==
  FirstIndex({i \in 1..Len(its) : NameOrSkuExact(its[i], name) /\ ActiveNotFalse(its[i])})

\* attribute fallback of the delete handler
FindByAttributesForDelete(its, line) ==
  FirstIndex({i \in 1..Len(its) :
                MatchesQuery(its[i], AttributeQuery(line)) /\ ActiveNotFalse(its[i])})

\* name/SKU lookup of the update handler (unanchored expression, isActive: true)
FindByNameForUpdate(its, name) ==
  FirstIndex({i \in 1..Len(its) : NameOrSkuAnywhere(its[i], name) /\ ActiveTrue(its[i])})

\* Item.findByIdAndUpdate(id, { $inc: { quantity: delta } }): no validators run
IncQuantity(its, i, delta) ==
  [its EXCEPT ![i] = [@ EXCEPT !.quantity = @ + delta]]

(***************************************************************************)
(* Pricing of the create handler                                           *)
(***************************************************************************)
BulkDiscountTypes == {"Aster Cover", "Without Aster Cover", "Calendar Cover"}

BulkThreshold == Whole(10)

\* a bulk rule that starts above the threshold instead of at it
calculateBulkDiscountAbove(coverType, quantity, basePrice) ==
  IF coverType \in BulkDiscountTypes /\ quantity > BulkThreshold THEN 10 ELSE 0

\* calculateBulkDiscount(coverType, quantity, basePrice): rupees per item
calculateBulkDiscount(coverType, quantity, basePrice) ==
  IF coverType \in BulkDiscountTypes /\ quantity >= BulkThreshold THEN 10 ELSE 0

\* p.productName || p.itemName
NameOf(p) == IF p.productName # <<>> THEN p.productName ELSE p.itemName

\* a JavaScript number used as a condition: neither undefined, NaN nor 0
Truthy(x) == IsNum(x) /\ x.v # 0

\* parseInt(p.quantity) || 0
LineQuantity(p) == IF IsNum(p.quantity) THEN ParseInt(p.quantity.v) ELSE 0

\* parseFloat(p.basePrice) || parseFloat(p.unitPrice) || parseFloat(p.price) || 0
LineBasePrice(p) ==
  IF Truthy(p.basePrice) THEN p.basePrice.v
  ELSE IF Truthy(p.unitPrice) THEN p.unitPrice.v
  ELSE IF Truthy(p.price) THEN p.price.v
  ELSE 0

ProductTypeOf(p) == IF p.productType # "" THEN p.productType ELSE "Cover"

\* the product name generated when the request gives none
GeneratedName(p) ==
  LET productType == ProductTypeOf(p)
  IN  IF productType = "Cover" /\ p.coverType # ""
        THEN <<productType, " - ", p.coverType>>
      ELSE IF productType = "Plate" /\ p.plateType # ""
        THEN <<productType, " - ", p.plateType>>
               \o (IF p.bikeName # "" THEN <<" ", "(", p.bikeName, ")">> ELSE <<>>)
      ELSE IF productType = "Form" /\ p.formVariant # ""
        THEN <<productType, " - ", p.formVariant>>
               \o (IF p.formCompany # "" THEN <<" ", "(", p.formCompany, ")">> ELSE <<>>)
      ELSE <<productType>>

\* the element-wise function of products.map in the create handler throws
LineThrows(p) == LineQuantity(p) <= 0 \/ LineBasePrice(p) < 0

\* a line total taken from the request when the request gives one
LineTotalFromRequest(p, quantity, safeUnitPrice) ==
  IF IsNum(p.totalPrice) THEN p.totalPrice.v ELSE Times(quantity, safeUnitPrice)

\* totalPrice = quantity * safeUnitPrice, whatever total the request line carries
LineTotal(p, quantity, safeUnitPrice) == Times(quantity, safeUnitPrice)

\* the processed product of the create handler
ProcessProduct(p) ==
  LET quantity == LineQuantity(p)
      basePrice == LineBasePrice(p)
      productType == ProductTypeOf(p)
      bulkDiscount == IF productType = "Cover" /\ p.coverType # ""
                        THEN calculateBulkDiscount(p.coverType, quantity, basePrice)
                        ELSE 0
      given == IsNum(p.unitPrice)
      finalUnitPrice == IF given THEN p.unitPrice.v ELSE basePrice - bulkDiscount
      manual == given /\ p.unitPrice.v # basePrice - bulkDiscount
      discountAmount == IF manual THEN Max(0, basePrice - finalUnitPrice) ELSE bulkDiscount
      discountType == IF manual THEN "manual"
                      ELSE IF bulkDiscount > 0 THEN "bulk" ELSE "none"
      safeUnitPrice == Max(0, finalUnitPrice)
  IN  [productName |-> IF NameOf(p) # <<>> THEN NameOf(p) ELSE GeneratedName(p),
       productType |-> productType,
       coverType |-> p.coverType,
       plateCompany |-> p.plateCompany,
       bikeName |-> p.bikeName,
       plateType |-> p.plateType,
       formCompany |-> p.formCompany,
       formType |-> p.formType,
       formVariant |-> p.formVariant,
       quantity |-> quantity,
       basePrice |-> Max(0, basePrice),
       unitPrice |-> safeUnitPrice,
       discountAmount |-> Times(quantity, discountAmount),
       discountType |-> discountType,
       totalPrice |-> LineTotal(p, quantity, safeUnitPrice)]

(***************************************************************************)
(* Schemas                                                                 *)
(***************************************************************************)
ProductTypes == {"Cover", "Form", "Plate"}
PlateCompanies == {"DY", "AH", "BELTA", ""}
FormCompanies == {"AG", "MR", "UC", "MASTER", ""}
FormTypes == {"Soft", "Hard", ""}
SlipPaymentMethods ==
  {"Cash", "Udhar", "Account", "Card", "UPI", "Bank Transfer", "Credit", "Other"}
IncomePaymentMethods == {"Cash", "Card", "UPI", "Bank Transfer", "Credit", "Other"}
SlipStatuses == {"Pending", "Paid", "Cancelled"}

\* ProductSchema validators
ValidProduct(l) ==
  /\ l.productType \in ProductTypes
  /\ l.plateCompany \in PlateCompanies
  /\ l.formCompany \in FormCompanies
  /\ l.formType \in FormTypes
  /\ l.quantity >= Whole(1)
  /\ l.basePrice >= 0
  /\ l.unitPrice >= 0
  /\ l.discountAmount >= 0
  /\ l.totalPrice >= 0

\* SlipSchema validators
ValidSlip(s) ==
  /\ s.paymentMethod \in SlipPaymentMethods
  /\ s.status \in SlipStatuses
  /\ s.subtotal >= 0
  /\ s.totalAmount >= 0
  /\ \A k \in 1..Len(s.products) : ValidProduct(s.products[k])

\* an element of productsSold, as SoldProductSchema keeps it
SoldProduct(l) ==
  [productName |-> l.productName,
   sku |-> <<>>,
   productType |-> l.productType,
   coverType |-> l.coverType,
   plateCompany |-> l.plateCompany,
   bikeName |-> l.bikeName,
   plateType |-> l.plateType,
   formCompany |-> l.formCompany,
   formType |-> l.formType,
   formVariant |-> l.formVariant,
   quantity |-> l.quantity,
   unitPrice |-> l.unitPrice,
   totalPrice |-> l.totalPrice]

\* SoldProductSchema and IncomeSchema validators
ValidIncome(r) ==
  /\ r.paymentMethod \in IncomePaymentMethods
  /\ r.totalIncome >= 0
  /\ \A k \in 1..Len(r.productsSold) :
       /\ r.productsSold[k].productType \in ProductTypes
       /\ r.productsSold[k].plateCompany \in PlateCompanies
       /\ r.productsSold[k].formCompany \in FormCompanies
       /\ r.productsSold[k].formType \in FormTypes
       /\ r.productsSold[k].quantity >= Whole(1)
       /\ r.productsSold[k].unitPrice >= 0
       /\ r.productsSold[k].totalPrice >= 0

\* the slip number the pre-save hook generates: unique per slip
SlipNumber(id) == <<"SLP", id>>

(***************************************************************************)
(* Responses.  session is the state the handler leaves its transaction in. *)
(***************************************************************************)
Response(op, id, code, error, line, incomeRecordsUpdated, inventoryItemsRestored, session) ==
  [op |-> op, id |-> id, code |-> code, error |-> error, line |-> line,
   incomeRecordsUpdated |-> incomeRecordsUpdated,
   inventoryItemsRestored |-> inventoryItemsRestored,
   session |-> session,
   available |-> 0]

\* "Available: N" in the message of an insufficient-stock response
WithAvailable(resp, n) == [resp EXCEPT !.available = n]

\* an abort that does not undo: the writes made so far stay
AbortedKeepsWrites(db, work, resp) == [db |-> work, resp |-> resp, sold |-> <<>>]

\* session.abortTransaction(): the writes made so far (the working copy) are
\* dropped and the collections are those the handler started from
Aborted(db, work, resp) == [db |-> db, resp |-> resp, sold |-> <<>>]

\* session.commitTransaction(): the working copy becomes the collections;
\* sold lists, for each line written, the Item whose stock was taken for it
Committed(work, resp, sold) == [db |-> work, resp |-> resp, sold |-> sold]

\* the collections with only the Item writes of the transaction so far
WithItems(db, its) == [db EXCEPT !.items = its]

\* the notes of an income record: a fixed phrase with the values put into it
IncomeNote(phrase, at, slipNumber, reason, text) ==
  [phrase |-> phrase, at |-> at, slipNumber |-> slipNumber, reason |-> reason,
   text |-> text]

RemoveKey(f, k) == [x \in DOMAIN f \ {k} |-> f[x]]

(***************************************************************************)
(* POST /slips                                                             *)
(***************************************************************************)
\* the Item a request line resolves to: by attributes, then by name/SKU
CreateResolve(its, p) ==
  LET byAttributes == FindByAttributes(its, p)
  IN  IF byAttributes # 0 THEN byAttributes
      ELSE IF NameOf(p) # <<>> THEN FindByNameForCreate(its, NameOf(p))
      ELSE 0

\* a stock check that also turns away a request for all that is left
CreateShortOrEqual(its, p) ==
  LET i == CreateResolve(its, p)
  IN  i # 0 /\ IsNum(p.quantity) /\ its[i].quantity <= p.quantity.v

\* inventoryItem.quantity < quantity, with quantity the raw request value
CreateShort(its, p) ==
  LET i == CreateResolve(its, p)
  IN  i # 0 /\ IsNum(p.quantity) /\ its[i].quantity < p.quantity.v

\* $inc: { quantity: -update.quantity }
DecrementBy(p) == IF IsNum(p.quantity) THEN 0 - p.quantity.v ELSE 0

\* the "reduce stock" loop over productUpdates, from entry k on
RECURSIVE ReduceStock(_, _, _, _)
ReduceStock(its, resolved, products, k) ==
  IF k > Len(products) THEN its
  ELSE ReduceStock(IncQuantity(its, resolved[k], DecrementBy(products[k])),
                   resolved, products, k + 1)

\* a validation loop that looks at the first line only
CreateFirstRejectedHeadOnly(its, products) ==
  IF Len(products) > 0
       /\ (CreateResolve(its, products[1]) = 0 \/ CreateShort(its, products[1]))
    THEN 1 ELSE 0

\* the validation loop stops at the first line it rejects
CreateFirstRejected(its, products) ==
  FirstIndex({k \in 1..Len(products) :
                CreateResolve(its, products[k]) = 0 \/ CreateShort(its, products[k])})

CreateSlip(db, req, id, now) ==
  LET products == req.products
      bad == CreateFirstRejected(db.items, products)
      resolved == [k \in 1..Len(products) |-> CreateResolve(db.items, products[k])]
      processedProducts == [k \in 1..Len(products) |-> ProcessProduct(products[k])]
      newSlip == [id |-> id,
                  slipNumber |-> SlipNumber(id),
                  customerName |-> IF req.customerName # "" THEN req.customerName
                                   ELSE "Walk-in Customer",
                  customerPhone |-> req.customerPhone,
                  paymentMethod |-> IF req.paymentMethod # "" THEN req.paymentMethod
                                    ELSE "Cash",
                  notes |-> <<>>,
                  products |-> processedProducts,
                  subtotal |-> req.subtotal.v,
                  totalAmount |-> req.totalAmount.v,
                  status |-> "Paid",
                  cancelledAt |-> 0]
      incomeRecord == [date |-> now,
                       totalIncome |-> req.totalAmount.v,
                       productsSold |-> [k \in 1..Len(products) |->
                                           SoldProduct(processedProducts[k])],
                       customerName |-> newSlip.customerName,
                       customerPhone |-> newSlip.customerPhone,
                       paymentMethod |-> newSlip.paymentMethod,
                       slipNumber |-> newSlip.slipNumber,
                       slipId |-> id,
                       notes |-> IncomeNote("Sale from slip", 0, newSlip.slipNumber, "", <<>>),
                       isActive |-> TRUE]
      work == [items |-> ReduceStock(db.items, resolved, products, 1),
               slips |-> db.slips @@ (id :> newSlip),
               incomes |-> Append(db.incomes, incomeRecord)]
      R(code, error, line, session) == Response("Create", id, code, error, line, 0, 0, session)
  IN  IF ~req.connected
        THEN Aborted(db, db, R(503, "DatabaseUnavailable", 0, "open"))
      ELSE IF Len(products) = 0
        THEN Aborted(db, db, R(400, "Validation", 0, "aborted"))
      ELSE IF req.subtotal.kind = "null" \/ req.totalAmount.kind = "null"
        THEN Aborted(db, db, R(400, "Validation", 0, "aborted"))
      ELSE IF ~ParsesAsNumber(req.subtotal) \/ ~ParsesAsNumber(req.totalAmount)
        THEN Aborted(db, db, R(400, "Validation", 0, "aborted"))
      ELSE IF req.subtotal.v < 0 \/ req.totalAmount.v < 0
        THEN Aborted(db, db, R(400, "Validation", 0, "aborted"))
      ELSE IF bad # 0 /\ CreateResolve(db.items, products[bad]) = 0
        THEN Aborted(db, db, R(400, "ProductNotFound", bad, "aborted"))
      ELSE IF bad # 0
        THEN Aborted(db, db, WithAvailable(R(400, "InsufficientStock", bad, "aborted"),
                                           db.items[resolved[bad]].quantity))
      ELSE IF \E k \in 1..Len(products) : LineThrows(products[k])
        THEN Aborted(db, db, R(500, "Internal", 0, "aborted"))
      ELSE IF ~ValidSlip(newSlip) \/ ~ValidIncome(incomeRecord)
        THEN Aborted(db, db, R(500, "Internal", 0, "aborted"))
      ELSE Committed(work, R(201, "none", 0, "committed"), resolved)

(***************************************************************************)
(* Reversal steps shared by cancel, update and delete                      *)
(***************************************************************************)
\* { $or: [{ slipId }, { slipNumber }], isActive: true }
IncomeOfSlip(r, slip) ==
  (r.slipId = slip.id \/ r.slipNumber = slip.slipNumber) /\ r.isActive

\* an updateMany that matches no record
DeactivateIncomeOfNone(incs, slip, note) == incs

\* Income.updateMany(filter, { $set: { isActive: false, notes } })
DeactivateIncome(incs, slip, note) ==
  [n \in 1..Len(incs) |->
     IF IncomeOfSlip(incs[n], slip)
       THEN [incs[n] EXCEPT !.isActive = FALSE, !.notes = note]
       ELSE incs[n]]

\* modifiedCount of an updateMany over the slip's active income records
ModifiedCount(incs, slip) ==
  Cardinality({n \in 1..Len(incs) : IncomeOfSlip(incs[n], slip)})

\* the $inc loop of a reversal: targets[k] is the Item found for line k, or 0
RECURSIVE RestoreStock(_, _, _, _)
RestoreStock(its, targets, lines, k) ==
  IF k > Len(lines) THEN its
  ELSE RestoreStock(IF targets[k] = 0 THEN its
                    ELSE IncQuantity(its, targets[k], lines[k].quantity),
                    targets, lines, k + 1)

\* a count of the lines looked at, found or not
RestoredCountOfLines(targets) == Len(targets)

\* restoredCount: one for every line whose Item was found
RestoredCount(targets) == Cardinality({k \in DOMAIN targets : targets[k] # 0})

\* the Item the cancel handler (and the cancellation branch of update) restores
CancelTarget(its, line) ==
  IF line.productName = <<>> \/ line.quantity <= 0 THEN 0
  ELSE FindByNameForRestore(its, line.productName)

\* the Item the delete handler restores: by name/SKU, then by attributes
DeleteTarget(its, line) ==
  IF line.productName = <<>> \/ line.quantity <= 0 THEN 0
  ELSE LET byName == FindByNameForRestore(its, line.productName)
       IN  IF byName # 0 THEN byName ELSE FindByAttributesForDelete(its, line)

\* the Item the update handler restores an old line to
UpdateRestoreTarget(its, line) == FindByNameForUpdate(its, line.productName)

(***************************************************************************)
(* PATCH /slips/cancel/:id                                                 *)
(***************************************************************************)
\* a cancellation that also empties the slip
MarkCancelledEmptied(slip, reason, now) ==
  [slip EXCEPT
     !.status = "Cancelled",
     !.cancelledAt = now,
     !.notes = IF reason # "" THEN @ \o <<"[CANCELLED: ", reason, "]">> ELSE @,
     !.products = <<>>,
     !.totalAmount = 0]

\* the fields the cancel handler sets on the slip before it saves it
MarkCancelled(slip, reason, now) ==
  [slip EXCEPT
     !.status = "Cancelled",
     !.cancelledAt = now,
     !.notes = IF reason # "" THEN @ \o <<"[CANCELLED: ", reason, "]">> ELSE @]

CancelSlip(db, id, reason, now) ==
  LET existingSlip == db.slips[id]
      cancelled == MarkCancelled(existingSlip, reason, now)
      note == IncomeNote("Cancelled on", now, existingSlip.slipNumber, reason, <<>>)
      lines == existingSlip.products
      targets == [k \in 1..Len(lines) |-> CancelTarget(db.items, lines[k])]
      work == [items |-> RestoreStock(db.items, targets, lines, 1),
               slips |-> [db.slips EXCEPT ![id] = cancelled],
               incomes |-> DeactivateIncome(db.incomes, existingSlip, note)]
  IN  IF id \notin DOMAIN db.slips
        THEN Aborted(db, db, Response("Cancel", id, 404, "NotFound", 0, 0, 0, "aborted"))
      ELSE IF existingSlip.status = "Cancelled"
        THEN Aborted(db, db, Response("Cancel", id, 400, "AlreadyCancelled", 0, 0, 0, "aborted"))
      ELSE Committed(work, Response("Cancel", id, 200, "none", 0,
                                    ModifiedCount(db.incomes, existingSlip),
                                    RestoredCount(targets), "committed"), <<>>)

(***************************************************************************)
(* DELETE /slips/:id                                                       *)
(***************************************************************************)
\* a delete that does not look whether the slip exists
DeleteSlipUnchecked(db, id, now) ==
  IF id \notin DOMAIN db.slips
    THEN Committed(db, Response("Delete", id, 200, "none", 0, 0, 0, "committed"), <<>>)
  ELSE LET slip == db.slips[id]
           lines == slip.products
           targets == [k \in 1..Len(lines) |-> DeleteTarget(db.items, lines[k])]
           note == IncomeNote("Deleted on", now, slip.slipNumber, "", <<>>)
           work == [items |-> RestoreStock(db.items, targets, lines, 1),
                    slips |-> RemoveKey(db.slips, id),
                    incomes |-> DeactivateIncome(db.incomes, slip, note)]
       IN  Committed(work, Response("Delete", id, 200, "none", 0,
                                    ModifiedCount(db.incomes, slip),
                                    RestoredCount(targets), "committed"), <<>>)

DeleteSlip(db, id, now) ==
  LET slip == db.slips[id]
      lines == slip.products
      targets == [k \in 1..Len(lines) |-> DeleteTarget(db.items, lines[k])]
      note == IncomeNote("Deleted on", now, slip.slipNumber, "", <<>>)
      work == [items |-> RestoreStock(db.items, targets, lines, 1),
               slips |-> RemoveKey(db.slips, id),
               incomes |-> DeactivateIncome(db.incomes, slip, note)]
  IN  IF id \notin DOMAIN db.slips
        THEN Aborted(db, db, Response("Delete", id, 404, "NotFound", 0, 0, 0, "aborted"))
      ELSE Committed(work, Response("Delete", id, 200, "none", 0,
                                    ModifiedCount(db.incomes, slip),
                                    RestoredCount(targets), "committed"), <<>>)

(***************************************************************************)
(* PUT /slips/:id                                                          *)
(***************************************************************************)
\* !productName || !quantity || quantity <= 0
UpdateInvalid(p) == NameOf(p) = <<>> \/ ~Truthy(p.quantity) \/ p.quantity.v <= 0

UpdateResolve(its, p) == FindByNameForUpdate(its, NameOf(p))

\* currentStock < quantity, read after the old lines were restored
UpdateShort(its, p) ==
  LET i == UpdateResolve(its, p)
  IN  i # 0 /\ its[i].quantity < p.quantity.v

UpdateFirstRejected(its, products) ==
  FirstIndex({k \in 1..Len(products) :
                \/ UpdateInvalid(products[k])
                \/ UpdateResolve(its, products[k]) = 0
                \/ UpdateShort(its, products[k])})

\* the product the update handler writes for a request line
UpdateProduct(p) ==
  LET quantity == p.quantity.v
      basePrice == LineBasePrice(p)
      productType == ProductTypeOf(p)
      bulkDiscount == IF productType = "Cover" /\ p.coverType # ""
                        THEN calculateBulkDiscount(p.coverType, quantity, basePrice)
                        ELSE 0
      given == IsNum(p.unitPrice)
      finalUnitPrice == IF given THEN p.unitPrice.v ELSE basePrice - bulkDiscount
      manual == given /\ p.unitPrice.v # basePrice - bulkDiscount
      discountAmount == IF manual THEN basePrice - finalUnitPrice ELSE bulkDiscount
      discountType == IF manual THEN "manual"
                      ELSE IF bulkDiscount > 0 THEN "bulk" ELSE "none"
  IN  [productName |-> IF NameOf(p) # <<>> THEN NameOf(p) ELSE GeneratedName(p),
       productType |-> productType,
       coverType |-> p.coverType,
       plateCompany |-> p.plateCompany,
       bikeName |-> p.bikeName,
       plateType |-> p.plateType,
       formCompany |-> "",
       formType |-> "",
       formVariant |-> "",
       quantity |-> quantity,
       basePrice |-> basePrice,
       unitPrice |-> finalUnitPrice,
       discountAmount |-> Times(quantity, discountAmount),
       discountType |-> discountType,
       totalPrice |-> Times(quantity, finalUnitPrice)]

\* an update that replaces the document: what the patch leaves out is emptied
ApplyUpdateDataReplacing(slip, patch, cancelledAt) ==
  [slip EXCEPT
     !.customerName = IF patch.customerName # Undef THEN patch.customerName ELSE @,
     !.customerPhone = IF patch.customerPhone # Undef THEN patch.customerPhone ELSE @,
     !.paymentMethod = IF patch.paymentMethod # Undef THEN patch.paymentMethod ELSE @,
     !.notes = IF patch.hasNotes THEN patch.notes ELSE <<>>,
     !.subtotal = IF IsNum(patch.subtotal) THEN patch.subtotal.v ELSE @,
     !.totalAmount = IF IsNum(patch.totalAmount) THEN patch.totalAmount.v ELSE @,
     !.status = IF patch.status # Undef THEN patch.status ELSE @,
     !.products = IF patch.hasProducts
                    THEN [k \in 1..Len(patch.products) |-> UpdateProduct(patch.products[k])]
                    ELSE @,
     !.cancelledAt = IF cancelledAt # 0 THEN cancelledAt ELSE @]

\* updateData applied by Slip.findByIdAndUpdate: only the fields the patch gives
ApplyUpdateData(slip, patch, cancelledAt) ==
  [slip EXCEPT
     !.customerName = IF patch.customerName # Undef THEN patch.customerName ELSE @,
     !.customerPhone = IF patch.customerPhone # Undef THEN patch.customerPhone ELSE @,
     !.paymentMethod = IF patch.paymentMethod # Undef THEN patch.paymentMethod ELSE @,
     !.notes = IF patch.hasNotes THEN patch.notes ELSE @,
     !.subtotal = IF IsNum(patch.subtotal) THEN patch.subtotal.v ELSE @,
     !.totalAmount = IF IsNum(patch.totalAmount) THEN patch.totalAmount.v ELSE @,
     !.status = IF patch.status # Undef THEN patch.status ELSE @,
     !.products = IF patch.hasProducts
                    THEN [k \in 1..Len(patch.products) |-> UpdateProduct(patch.products[k])]
                    ELSE @,
     !.cancelledAt = IF cancelledAt # 0 THEN cancelledAt ELSE @]

\* an income update that copies the product lines and nothing else
MirrorIncomeProductsOnly(incs, existingSlip, updatedSlip, patch) ==
  [n \in 1..Len(incs) |->
     IF IncomeOfSlip(incs[n], existingSlip)
       THEN [incs[n] EXCEPT
               !.productsSold = [k \in 1..Len(updatedSlip.products) |->
                                   SoldProduct(updatedSlip.products[k])]]
       ELSE incs[n]]

\* the $set of the income update that follows a change of products
MirrorIncome(incs, existingSlip, updatedSlip, patch) ==
  [n \in 1..Len(incs) |->
     IF IncomeOfSlip(incs[n], existingSlip)
       THEN [incs[n] EXCEPT
               !.totalIncome = IF Truthy(patch.totalAmount) THEN patch.totalAmount.v
                               ELSE updatedSlip.totalAmount,
               !.productsSold = [k \in 1..Len(updatedSlip.products) |->
                                   SoldProduct(updatedSlip.products[k])],
               !.customerName = IF patch.customerName \notin {Undef, ""}
                                  THEN patch.customerName
                                  ELSE updatedSlip.customerName,
               !.paymentMethod = IF patch.paymentMethod \notin {Undef, ""}
                                   THEN patch.paymentMethod
                                   ELSE updatedSlip.paymentMethod,
               !.notes = IncomeNote("", 0, <<>>, "",
                                    IF patch.hasNotes THEN patch.notes
                                    ELSE existingSlip.notes)]
       ELSE incs[n]]

UpdateSlip(db, id, patch, now) ==
  LET existingSlip == db.slips[id]
      products == patch.products
      \* first pass: the old lines go back to inventory
      oldLines == existingSlip.products
      oldTargets == [k \in 1..Len(oldLines) |-> UpdateRestoreTarget(db.items, oldLines[k])]
      restored == IF patch.hasProducts THEN RestoreStock(db.items, oldTargets, oldLines, 1)
                  ELSE db.items
      \* second pass: the new lines are checked against the restored stock
      bad == IF patch.hasProducts THEN UpdateFirstRejected(restored, products) ELSE 0
      resolved == [k \in 1..Len(products) |-> UpdateResolve(restored, products[k])]
      reserved == IF patch.hasProducts THEN ReduceStock(restored, resolved, products, 1)
                  ELSE restored
      \* cancellation branch
      cancelling == patch.status = "Cancelled" /\ existingSlip.status # "Cancelled"
      cancelTargets == [k \in 1..Len(oldLines) |-> CancelTarget(reserved, oldLines[k])]
      finalItems == IF cancelling THEN RestoreStock(reserved, cancelTargets, oldLines, 1)
                    ELSE reserved
      note == IncomeNote("Cancelled on", now, existingSlip.slipNumber, "", <<>>)
      afterCancel == IF cancelling THEN DeactivateIncome(db.incomes, existingSlip, note)
                     ELSE db.incomes
      updatedSlip == ApplyUpdateData(existingSlip, patch, IF cancelling THEN now ELSE 0)
      mirrors == /\ patch.hasProducts
                 /\ patch.status # "Cancelled"
                 /\ existingSlip.status # "Cancelled"
      finalIncomes == IF mirrors
                        THEN MirrorIncome(afterCancel, existingSlip, updatedSlip, patch)
                        ELSE afterCancel
      work == [items |-> finalItems,
               slips |-> [db.slips EXCEPT ![id] = updatedSlip],
               incomes |-> finalIncomes]
      R(code, error, line, session) == Response("Update", id, code, error, line, 0, 0, session)
  IN  IF id \notin DOMAIN db.slips
        THEN Aborted(db, db, R(404, "NotFound", 0, "aborted"))
      ELSE IF bad # 0 /\ UpdateInvalid(products[bad])
        THEN Aborted(db, WithItems(db, restored), R(400, "Validation", bad, "aborted"))
      ELSE IF bad # 0 /\ UpdateResolve(restored, products[bad]) = 0
        THEN Aborted(db, WithItems(db, restored), R(400, "ProductNotFound", bad, "aborted"))
      ELSE IF bad # 0
        THEN Aborted(db, WithItems(db, restored),
                     WithAvailable(R(400, "InsufficientStock", bad, "aborted"),
                                   restored[resolved[bad]].quantity))
      ELSE IF patch.status = "Cancelled" /\ existingSlip.status = "Cancelled"
                /\ existingSlip.cancelledAt # 0
        THEN Aborted(db, WithItems(db, reserved), R(400, "AlreadyCancelled", 0, "aborted"))
      ELSE IF ~ValidSlip(updatedSlip)
        THEN Aborted(db, [items |-> finalItems, slips |-> db.slips,
                          incomes |-> afterCancel],
                     R(500, "Internal", 0, "aborted"))
      ELSE Committed(work, Response("Update", id, 200, "none", 0,
                                    IF cancelling THEN ModifiedCount(db.incomes, existingSlip)
                                    ELSE IF mirrors
                                      THEN ModifiedCount(afterCancel, existingSlip)
                                    ELSE 0,
                                    IF cancelling THEN RestoredCount(cancelTargets) ELSE 0,
                                    "committed"),
                     resolved)

(***************************************************************************)
(* Catalogue and requests the model draws from                             *)
(***************************************************************************)
Item(name, sku, productType, coverType, quantity, isActive) ==
  [name |-> name, sku |-> sku, productType |-> productType, coverType |-> coverType,
   plateCompany |-> "", bikeName |-> "", plateType |-> "",
   formCompany |-> "", formType |-> "", formVariant |-> "",
   quantity |-> quantity, isActive |-> isActive, lastUpdated |-> 0]

Catalogue ==
  << Item(<<"a">>, <<>>, "Cover", "Aster Cover", Whole(3), "true"),
     Item(<<"a", "b">>, <<"A", "B">>, "Cover", "Color Cover", Whole(2), "true") >>

Line(name, productType, coverType, plateType, quantity, basePrice, unitPrice) ==
  [productName |-> name, itemName |-> <<>>, productType |-> productType,
   coverType |-> coverType, plateCompany |-> "", bikeName |-> "",
   plateType |-> plateType, formCompany |-> "", formType |-> "", formVariant |-> "",
   quantity |-> quantity, basePrice |-> basePrice, unitPrice |-> unitPrice,
   price |-> Null, totalPrice |-> Null]

\* one unit, two units and two and a half units of the first item
LineA1 == Line(<<"a">>, "Cover", "Aster Cover", "", Num(Whole(1)), Num(100), Null)
\* (this line also carries a total of its own making, which is not 2 x 100)
LineA2 ==
  [Line(<<"a">>, "Cover", "Aster Cover", "", Num(Whole(2)), Num(100), Null)
     EXCEPT !.totalPrice = Num(8)]
LineA2h == Line(<<"a">>, "Cover", "Aster Cover", "", Num(5), Num(100), Null)
\* the attributes of the first item under the name of the second
LineMixed == Line(<<"a", "b">>, "Cover", "Aster Cover", "", Num(Whole(1)), Num(100), Null)
\* the second item, named in another case, at a manually reduced price
LineB1 == Line(<<"A", "B">>, "Cover", "Color Cover", "", Num(Whole(1)), Num(50), Num(40))
\* more of the second item than there is
LineB3 == Line(<<"a", "b">>, "Cover", "Color Cover", "", Num(Whole(3)), Num(50), Null)
\* no name: the name is generated, the item is found by attributes
LineUnnamed == Line(<<>>, "Cover", "Aster Cover", "", Num(Whole(1)), Num(100), Null)
\* nothing in the catalogue matches
LineUnknown == Line(<<"z">>, "Plate", "", "Single", Num(Whole(1)), Num(30), Null)
\* a quantity of zero
LineZero == Line(<<"a">>, "Cover", "Aster Cover", "", Num(0), Num(100), Null)
\* a negative base price
LineNegative == Line(<<"a">>, "Cover", "Aster Cover", "", Num(Whole(1)), Num(0 - 2), Null)

CreateRequest(products, paymentMethod, subtotal, totalAmount, connected) ==
  [connected |-> connected, customerName |-> "", customerPhone |-> "",
   paymentMethod |-> paymentMethod, subtotal |-> subtotal,
   totalAmount |-> totalAmount, products |-> products]

ProductLists ==
  { <<LineA1>>, <<LineA2, LineA2>>, <<LineA2h>>, <<LineMixed>>, <<LineA1, LineB1>>,
    <<LineUnnamed>>, <<LineA1, LineUnknown>>, <<LineA1, LineB3>>, <<LineZero>>,
    <<LineNegative>>, <<LineB3, LineUnknown>> }

CreateRequests ==
  { CreateRequest(l, "", Num(100), Num(100), TRUE) : l \in ProductLists }
    \cup { CreateRequest(<<>>, "", Num(100), Num(100), TRUE),
           CreateRequest(<<LineA1>>, "", Null, Num(100), TRUE),
           CreateRequest(<<LineA1>>, "", Num(100), NaNStr, TRUE),
           CreateRequest(<<LineA1>>, "", Num(100), NumPrefixStr(100), TRUE),
           CreateRequest(<<LineA1>>, "", Num(100), Num(0 - 1), TRUE),
           CreateRequest(<<LineA1>>, "Udhar", Num(100), Num(100), TRUE),
           CreateRequest(<<LineA1>>, "", Num(100), Num(100), FALSE) }

Patch(status, hasProducts, products, totalAmount, hasNotes, notes) ==
  [customerName |-> Undef, customerPhone |-> Undef, paymentMethod |-> Undef,
   hasNotes |-> hasNotes, notes |-> notes, hasProducts |-> hasProducts,
   products |-> products, subtotal |-> Null, totalAmount |-> totalAmount,
   status |-> status]

Patches ==
  { Patch("Paid", FALSE, <<>>, Null, FALSE, <<>>),
    Patch("Pending", FALSE, <<>>, Null, FALSE, <<>>),
    Patch("Cancelled", FALSE, <<>>, Null, FALSE, <<>>),
    Patch(Undef, FALSE, <<>>, Num(60), FALSE, <<>>),
    [Patch(Undef, TRUE, <<LineA2>>, Num(200), TRUE, <<"n">>)
       EXCEPT !.customerName = "c", !.paymentMethod = "Card"],
    Patch(Undef, TRUE, <<LineMixed>>, Null, FALSE, <<>>),
    Patch(Undef, TRUE, <<LineA1, LineB3>>, Null, FALSE, <<>>),
    Patch("Cancelled", TRUE, <<LineUnknown>>, Null, FALSE, <<>>),
    Patch("Cancelled", TRUE, <<LineA2>>, Null, FALSE, <<>>) }

Reasons == {"", "r"}

\* the ids a request can name: every slip created so far and one that never existed
RequestIds == 0..(nextId - 1)

(***************************************************************************)
(* State machine: one action per request, each a whole transaction         *)
(***************************************************************************)
NoResponse == Response("None", 0, 0, "none", 0, 0, 0, "none")

NoRequest == [kind |-> "none"]

\* no line is being priced on its own
NoPricing == [stage |-> "none"]

\* no request is in flight
NoConc == [stage |-> "none"]

\* the collections as the requests of the model find them
InitStore ==
  /\ items = Catalogue
  /\ slips = [i \in {} |-> 0]
  /\ incomes = <<>>
  /\ soldFrom = [i \in {} |-> <<>>]
  /\ nextId = 1
  /\ clock = 1
  /\ last = [req |-> NoRequest, resp |-> NoResponse, itemsBefore |-> Catalogue]
  /\ prev = [req |-> NoRequest, resp |-> NoResponse, itemsBefore |-> Catalogue]

Init == InitStore /\ pricing = NoPricing /\ conc = NoConc

Db == [items |-> items, slips |-> slips, incomes |-> incomes]

\* the outcome of a handler becomes the state; request and response are remembered
Finish(req, out) ==
  /\ items' = out.db.items
  /\ slips' = out.db.slips
  /\ incomes' = out.db.incomes
  /\ clock' = clock + 1
  /\ last' = [req |-> req, resp |-> out.resp, itemsBefore |-> items]
  /\ prev' = last
  /\ UNCHANGED <<pricing, conc>>

Create ==
  /\ clock <= MaxOps
  /\ \E req \in CreateRequests :
       LET out == CreateSlip(Db, req, nextId, clock)
       IN  /\ Finish(req, out)
           /\ nextId' = IF out.resp.code = 201 THEN nextId + 1 ELSE nextId
           /\ soldFrom' = IF out.resp.code = 201 THEN soldFrom @@ (nextId :> out.sold)
                          ELSE soldFrom

Cancel ==
  /\ clock <= MaxOps
  /\ \E id \in RequestIds, reason \in Reasons :
       /\ Finish([reason |-> reason], CancelSlip(Db, id, reason, clock))
       /\ UNCHANGED <<nextId, soldFrom>>

Update ==
  /\ clock <= MaxOps
  /\ \E id \in RequestIds, patch \in Patches :
       LET out == UpdateSlip(Db, id, patch, clock)
       IN  /\ Finish(patch, out)
           /\ soldFrom' = IF out.resp.code = 200 /\ patch.hasProducts
                            THEN [soldFrom EXCEPT ![id] = out.sold]
                            ELSE soldFrom
           /\ UNCHANGED nextId

Delete ==
  /\ clock <= MaxOps
  /\ \E id \in RequestIds :
       LET out == DeleteSlip(Db, id, clock)
       IN  /\ Finish(NoRequest, out)
           /\ soldFrom' = IF out.resp.code = 200 THEN RemoveKey(soldFrom, id) ELSE soldFrom
           /\ UNCHANGED nextId

Next == Create \/ Cancel \/ Update \/ Delete

Spec == Init /\ [][Next]_vars

(***************************************************************************)
(* Pricing on its own: a request line is drawn, and the element-wise       *)
(* function of products.map in the create handler is applied to it         *)
(***************************************************************************)
PricingProductTypes == {"", "Cover", "Plate"}

PricingCoverTypes == {"", "Aster Cover", "Calendar Cover", "Color Cover"}

\* none, and whole and half quantities around the bulk threshold
PricingQuantities == {Num(0)} \cup {Num(q) : q \in Whole(9)..Whole(MaxQuantity)}

PricingBasePrices == {Null, Num(0), Num(4), Num(100)}

PricingUnitPrices == {Null, Num(0 - 2), Num(0), Num(90), Num(100)}

PricingPrices == {Null, Num(50)}

PricingLines ==
  { [Line(<<"a">>, productType, coverType, "", quantity, basePrice, unitPrice)
       EXCEPT !.price = price] :
      productType \in PricingProductTypes, coverType \in PricingCoverTypes,
      quantity \in PricingQuantities, basePrice \in PricingBasePrices,
      unitPrice \in PricingUnitPrices, price \in PricingPrices }

PricingInit ==
  /\ InitStore
  /\ conc = NoConc
  /\ pricing \in {[stage |-> "sent", line |-> l] : l \in PricingLines}

\* the function returns the processed product
PriceLine ==
  /\ pricing.stage = "sent"
  /\ ~LineThrows(pricing.line)
  /\ pricing' = [stage |-> "priced", line |-> pricing.line,
                 out |-> ProcessProduct(pricing.line)]
  /\ UNCHANGED <<items, slips, incomes, nextId, clock, last, prev, soldFrom, conc>>

\* the function throws: invalid quantity or invalid base price
RejectLine ==
  /\ pricing.stage = "sent"
  /\ LineThrows(pricing.line)
  /\ pricing' = [stage |-> "thrown", line |-> pricing.line]
  /\ UNCHANGED <<items, slips, incomes, nextId, clock, last, prev, soldFrom, conc>>

PricingNext == PriceLine \/ RejectLine

PricingSpec == PricingInit /\ [][PricingNext]_vars

(***************************************************************************)
(* Handlers in flight together.  A Create runs inside a transaction of    *)
(* the store: its reads see the collections as they were at its first      *)
(* read, its writes stay its own until it commits, and a write to a        *)
(* document that another transaction has written, or that was written      *)
(* after the first read, fails with a write conflict.  The stock handler   *)
(* of the items router uses no session: it reads the committed document    *)
(* and later saves the quantity it computed.                               *)
(***************************************************************************)
\* the total quantity of the lines whose stock was taken from Item i
RECURSIVE QuantityOn(_, _, _, _)
QuantityOn(lines, sold, i, k) ==
  IF k > Len(lines) THEN 0
  ELSE (IF sold[k] = i THEN lines[k].quantity ELSE 0) + QuantityOn(lines, sold, i, k + 1)

Sessions == 1..MaxSessions

ConcRequests ==
  { CreateRequest(l, "", Num(100), Num(100), TRUE) :
      l \in {<<LineA1>>, <<LineA2, LineA2>>, <<LineA1, LineB1>>, <<LineA1, LineB3>>} }
    \cup { CreateRequest(<<LineA1>>, "Udhar", Num(100), Num(100), TRUE) }

StockOperations == {"set", "add", "subtract"}

StockQuantities == {Whole(1)}

IdleTxn ==
  [pc |-> "idle", req |-> NoRequest, snap |-> <<>>, snapVer |-> <<>>, work |-> <<>>,
   wrote |-> {}, resolved |-> <<>>, k |-> 0, resp |-> NoResponse]

IdleAdjust ==
  [pc |-> "idle", item |-> 0, operation |-> "", quantity |-> 0, newQuantity |-> 0,
   code |-> 0]

ConcInit ==
  /\ InitStore
  /\ pricing = NoPricing
  /\ conc = [stage |-> "run",
             ver |-> [i \in 1..Len(Catalogue) |-> 0],
             txn |-> [t \in Sessions |-> IdleTxn],
             adjust |-> IdleAdjust,
             expected |-> [i \in 1..Len(Catalogue) |-> Catalogue[i].quantity],
             sold |-> [i \in 1..Len(Catalogue) |-> 0],
             overlapped |-> FALSE]

\* the transaction has begun and has neither committed nor aborted
InFlight(tx) == tx.pc \in {"reduce", "save"}

\* a store whose transactions never meet a write conflict
NoWriteConflict(c, t, i) == FALSE

\* the write of transaction t to Item i cannot go through: another
\* transaction in flight has written the Item, or the Item was written
\* after t's first read
WriteConflict(c, t, i) ==
  \/ \E u \in Sessions \ {t} : InFlight(c.txn[u]) /\ i \in c.txn[u].wrote
  \/ c.ver[i] # c.txn[t].snapVer[i]

\* the handler ends without a commit: its writes are dropped
EndTxn(tx, resp) ==
  [tx EXCEPT !.pc = "done", !.resp = resp, !.snap = <<>>, !.snapVer = <<>>,
             !.work = <<>>, !.wrote = {}, !.k = 0]

\* POST /slips up to the end of products.map: the transaction starts, the
\* request is checked, every line is resolved and checked against the stock
\* the transaction reads, and the lines are priced
Begin ==
  \E t \in Sessions, req \in ConcRequests :
    LET tx == conc.txn[t]
        out == CreateSlip(Db, req, nextId, clock)
        products == req.products
        rejected == \/ out.resp.code \in {400, 503}
                    \/ \E k \in 1..Len(products) : LineThrows(products[k])
        resolved == [k \in 1..Len(products) |-> CreateResolve(items, products[k])]
        meets == \E u \in Sessions \ {t} :
                   /\ InFlight(conc.txn[u])
                   /\ \E j \in DOMAIN conc.txn[u].resolved, k \in DOMAIN resolved :
                        conc.txn[u].resolved[j] = resolved[k]
    IN  /\ conc.stage = "run"
        /\ tx.pc = "idle"
        /\ conc' = [conc EXCEPT
                      !.txn[t] = IF rejected THEN EndTxn([tx EXCEPT !.req = req], out.resp)
                                 ELSE [pc |-> "reduce", req |-> req, snap |-> items,
                                       snapVer |-> conc.ver, work |-> items, wrote |-> {},
                                       resolved |-> resolved, k |-> 1, resp |-> NoResponse],
                      !.overlapped = @ \/ (~rejected /\ meets)]
        /\ UNCHANGED <<items, slips, incomes, nextId, clock, last, prev, soldFrom, pricing>>

\* one turn of the "reduce stock" loop: the $inc of one productUpdates entry,
\* or the write conflict that throws into the handler's catch
Reduce ==
  \E t \in Sessions :
    LET tx == conc.txn[t]
        p == tx.req.products[tx.k]
        i == tx.resolved[tx.k]
    IN  /\ conc.stage = "run"
        /\ tx.pc = "reduce"
        /\ conc' = [conc EXCEPT
                      !.txn[t] =
                        IF WriteConflict(conc, t, i)
                          THEN EndTxn(tx, Response("Create", 0, 500, "Internal", tx.k, 0, 0,
                                                   "aborted"))
                          ELSE [tx EXCEPT
                                  !.work = IncQuantity(@, i, DecrementBy(p)),
                                  !.wrote = @ \cup {i},
                                  !.k = @ + 1,
                                  !.pc = IF tx.k = Len(tx.req.products) THEN "save"
                                         ELSE "reduce"]]
        /\ UNCHANGED <<items, slips, incomes, nextId, clock, last, prev, soldFrom, pricing>>

\* newSlip.save, incomeRecord.save and commitTransaction: the writes of the
\* transaction become the collections; a document that fails its schema
\* throws into the handler's catch instead
Commit ==
  \E t \in Sessions :
    LET tx == conc.txn[t]
        out == CreateSlip([items |-> tx.snap, slips |-> slips, incomes |-> incomes],
                          tx.req, nextId, clock)
        lines == out.db.slips[nextId].products
    IN  /\ conc.stage = "run"
        /\ tx.pc = "save"
        /\ IF out.resp.code = 201
             THEN /\ items' = [i \in DOMAIN items |->
                                IF i \in tx.wrote THEN tx.work[i] ELSE items[i]]
                  /\ slips' = slips @@ (nextId :> out.db.slips[nextId])
                  /\ incomes' = Append(incomes, out.db.incomes[Len(out.db.incomes)])
                  /\ nextId' = nextId + 1
                  /\ soldFrom' = soldFrom @@ (nextId :> tx.resolved)
                  /\ conc' = [conc EXCEPT
                                !.txn[t] = EndTxn(tx, out.resp),
                                !.ver = [i \in DOMAIN @ |->
                                           IF i \in tx.wrote THEN @[i] + 1 ELSE @[i]],
                                !.expected = [i \in DOMAIN @ |->
                                                @[i] + tx.work[i].quantity
                                                     - tx.snap[i].quantity],
                                !.sold = [i \in DOMAIN @ |->
                                            @[i] + QuantityOn(lines, tx.resolved, i, 1)]]
             ELSE /\ conc' = [conc EXCEPT !.txn[t] = EndTxn(tx, out.resp)]
                  /\ UNCHANGED <<items, slips, incomes, nextId, soldFrom>>
        /\ UNCHANGED <<clock, last, prev, pricing>>

\* PATCH /items/:id/stock up to item.save(): the response code, and the
\* quantity the handler is about to save
StockAdjust(current, quantity, operation) ==
  LET newQuantity == IF operation = "add" THEN current + quantity
                     ELSE IF operation = "subtract" THEN current - quantity
                     ELSE quantity
  IN  IF quantity < 0 THEN [code |-> 400, newQuantity |-> current]
      ELSE IF operation = "subtract" /\ newQuantity < 0
        THEN [code |-> 400, newQuantity |-> current]
      ELSE IF newQuantity < 0 THEN [code |-> 500, newQuantity |-> current]
      ELSE [code |-> 200, newQuantity |-> newQuantity]

\* the stock handler reads the Item and computes the new quantity
AdjustRead ==
  \E i \in 1..Len(items), operation \in StockOperations, quantity \in StockQuantities :
    LET res == StockAdjust(items[i].quantity, quantity, operation)
    IN  /\ conc.stage = "run"
        /\ conc.adjust.pc = "idle"
        /\ conc' = [conc EXCEPT
                      !.adjust = [pc |-> IF res.code = 200 THEN "save" ELSE "done",
                                  item |-> i, operation |-> operation,
                                  quantity |-> quantity,
                                  newQuantity |-> res.newQuantity, code |-> res.code]]
        /\ UNCHANGED <<items, slips, incomes, nextId, clock, last, prev, soldFrom, pricing>>

\* item.save(): the computed quantity is written over the committed one; the
\* write waits while a transaction in flight has written the Item
AdjustSave ==
  LET a == conc.adjust
  IN  /\ conc.stage = "run"
      /\ a.pc = "save"
      /\ \A u \in Sessions : ~(InFlight(conc.txn[u]) /\ a.item \in conc.txn[u].wrote)
      /\ items' = [items EXCEPT ![a.item] = [@ EXCEPT !.quantity = a.newQuantity,
                                                       !.lastUpdated = clock]]
      /\ conc' = [conc EXCEPT
                    !.adjust = [a EXCEPT !.pc = "done"],
                    !.ver = [@ EXCEPT ![a.item] = @ + 1],
                    !.expected = [@ EXCEPT ![a.item] =
                                    IF a.operation = "add" THEN @ + a.quantity
                                    ELSE IF a.operation = "subtract" THEN @ - a.quantity
                                    ELSE a.quantity]]
      /\ UNCHANGED <<slips, incomes, nextId, clock, last, prev, soldFrom, pricing>>

ConcNext == Begin \/ Reduce \/ Commit \/ AdjustRead \/ AdjustSave

ConcSpec == ConcInit /\ [][ConcNext]_vars

(***************************************************************************)
(* The workflow over Items that are active, soft-deleted or without an     *)
(* isActive field.  An Item loses its active flag through DELETE           *)
(* /items/:id; an Item written before the schema had the field has none.   *)
(***************************************************************************)
\* the values of isActive the first Item of the catalogue may be stored with
StoredFlags == {"true", "absent"}

CatalogueWith(flag) == [Catalogue EXCEPT ![1] = [@ EXCEPT !.isActive = flag]]

FlagInit ==
  /\ \E flag \in StoredFlags :
       /\ items = CatalogueWith(flag)
       /\ last = [req |-> NoRequest, resp |-> NoResponse, itemsBefore |-> CatalogueWith(flag)]
       /\ prev = [req |-> NoRequest, resp |-> NoResponse, itemsBefore |-> CatalogueWith(flag)]
  /\ slips = [i \in {} |-> 0]
  /\ incomes = <<>>
  /\ soldFrom = [i \in {} |-> <<>>]
  /\ nextId = 1
  /\ clock = 1
  /\ pricing = NoPricing
  /\ conc = NoConc

\* a delete that takes the document out of the collection
SoftDeleteItemRemoving(db, i, now) ==
  IF i \notin 1..Len(db.items)
    THEN Aborted(db, db, Response("DeleteItem", i, 404, "NotFound", 0, 0, 0, "none"))
  ELSE Committed(WithItems(db, SubSeq(db.items, 1, i - 1)
                                 \o SubSeq(db.items, i + 1, Len(db.items))),
                 Response("DeleteItem", i, 200, "none", 0, 0, 0, "none"), <<>>)

\* Item.findByIdAndUpdate(id, { isActive: false, lastUpdated: new Date() })
SoftDeleteItem(db, i, now) ==
  IF i \notin 1..Len(db.items)
    THEN Aborted(db, db, Response("DeleteItem", i, 404, "NotFound", 0, 0, 0, "none"))
  ELSE Committed(WithItems(db, [db.items EXCEPT ![i] = [@ EXCEPT !.isActive = "false",
                                                                !.lastUpdated = now]]),
                 Response("DeleteItem", i, 200, "none", 0, 0, 0, "none"), <<>>)

\* the ids a DELETE /items/:id can name: every Item and one that does not exist
ItemIds == 1..(Len(items) + 1)

DeleteItem ==
  /\ clock <= MaxOps
  /\ \E i \in ItemIds :
       /\ Finish(NoRequest, SoftDeleteItem(Db, i, clock))
       /\ UNCHANGED <<nextId, soldFrom>>

FlagNext == Create \/ Cancel \/ Update \/ Delete \/ DeleteItem

FlagSpec == FlagInit /\ [][FlagNext]_vars

(***************************************************************************)
(* The items router and the reset route next to the slip workflow          *)
(***************************************************************************)
Upper(c) ==
  CASE c = "a" -> "A"
    [] c = "b" -> "B"
    [] c = "c" -> "C"
    [] OTHER -> c

\* sku.toUpperCase().trim()
UpperText(t) == [i \in 1..Len(t) |-> Upper(t[i])]

\* the name POST /items gives an Item that comes without one
GeneratedItemName(req) ==
  <<IF req.productType # "" THEN req.productType ELSE "Cover">>
    \o (IF req.coverType # "" THEN <<" - ", req.coverType>> ELSE <<>>)

\* `${productTypeForSku}-${Date.now()}-${random}`.toUpperCase(): unlike any other
GeneratedSku(req, now) ==
  <<IF req.productType # "" THEN req.productType ELSE "Cover", "-", ToString(now)>>

\* Item.findOne({ sku, isActive: true })
FindActiveBySku(its, sku) ==
  FirstIndex({i \in 1..Len(its) : its[i].sku = sku /\ ActiveTrue(its[i])})

\* POST /items up to newItem.save(): the response code and the document to save
PostItem(its, req, now) ==
  LET isSimpleProduct == req.name # <<>>
      quantityValue == IF IsNum(req.quantity) THEN ParseInt(req.quantity.v) ELSE 0
      given == req.sku # <<>>
      finalSku == IF given THEN UpperText(req.sku) ELSE GeneratedSku(req, now)
      itemData == [Item(IF isSimpleProduct THEN req.name ELSE GeneratedItemName(req),
                        finalSku,
                        IF isSimpleProduct \/ req.productType = "" THEN "Cover"
                        ELSE req.productType,
                        IF ~isSimpleProduct /\ req.productType = "Cover" THEN req.coverType
                        ELSE "",
                        quantityValue,
                        IF req.isActive = "false" THEN "false" ELSE "true")
                     EXCEPT !.lastUpdated = now]
  IN  IF ~IsNum(req.price) \/ req.price.v < 0
        THEN [code |-> 400, error |-> "Validation", item |-> itemData]
      ELSE IF quantityValue < 0
        THEN [code |-> 400, error |-> "Validation", item |-> itemData]
      ELSE IF given /\ FindActiveBySku(its, finalSku) # 0
        THEN [code |-> 400, error |-> "SkuExists", item |-> itemData]
      ELSE IF ~isSimpleProduct /\ req.productType = "Cover" /\ req.coverType = ""
        THEN [code |-> 400, error |-> "Validation", item |-> itemData]
      ELSE IF itemData.productType \notin ProductTypes
        THEN [code |-> 400, error |-> "Validation", item |-> itemData]
      ELSE [code |-> 201, error |-> "none", item |-> itemData]

\* the whole of POST /items when no other request runs between check and save
CreateItem(db, req, now) ==
  LET out == PostItem(db.items, req, now)
      R == Response("PostItem", 0, out.code, out.error, 0, 0, 0, "none")
  IN  IF out.code = 201 THEN Committed(WithItems(db, Append(db.items, out.item)), R, <<>>)
      ELSE Aborted(db, db, R)

\* PATCH /items/:id/stock, read and save together
PatchStock(db, i, operation, quantity, now) ==
  LET res == IF i \in 1..Len(db.items)
               THEN StockAdjust(db.items[i].quantity, quantity, operation)
               ELSE [code |-> 404, newQuantity |-> 0]
      R == Response("PatchStock", i, res.code, "none", 0, 0, 0, "none")
  IN  IF res.code = 200
        THEN Committed(WithItems(db, [db.items EXCEPT ![i] =
                                        [@ EXCEPT !.quantity = res.newQuantity,
                                                  !.lastUpdated = now]]), R, <<>>)
      ELSE Aborted(db, db, R)

\* DELETE /items/all: Item.deleteMany({})
DeleteAllItems(db, connected) ==
  IF ~connected
    THEN Aborted(db, db, Response("DeleteAllItems", 0, 503, "DatabaseUnavailable", 0, 0, 0,
                                  "none"))
  ELSE Committed(WithItems(db, <<>>),
                 Response("DeleteAllItems", 0, 200, "none", 0, 0, 0, "none"), <<>>)

\* process.env.RESET_SECRET || 'reset123'
ExpectedSecret == "reset123"

\* POST /reset
Reset(db, req) ==
  IF req.confirm # "RESET_ALL" \/ req.secret # ExpectedSecret
    THEN Aborted(db, db, Response("Reset", 0, 403, "Forbidden", 0, 0, 0, "none"))
  ELSE IF ~req.connected
    THEN Aborted(db, db, Response("Reset", 0, 503, "DatabaseUnavailable", 0, 0, 0, "none"))
  ELSE Committed([items |-> <<>>, slips |-> [i \in {} |-> 0], incomes |-> <<>>],
                 Response("Reset", 0, 200, "none", 0, 0, 0, "none"), <<>>)

ItemRequest(name, sku, productType, coverType, quantity, price, isActive) ==
  [name |-> name, sku |-> sku, productType |-> productType, coverType |-> coverType,
   quantity |-> quantity, price |-> price, isActive |-> isActive]

ItemRequests ==
  { ItemRequest(<<"c">>, <<"c">>, "", "", Num(Whole(1)), Num(10), Undef),
    ItemRequest(<<>>, <<"a", "b">>, "Cover", "Aster Cover", Num(Whole(1)), Num(10), Undef),
    ItemRequest(<<>>, <<>>, "Cover", "", Num(Whole(1)), Num(10), Undef),
    ItemRequest(<<"c">>, <<"c">>, "", "", Num(Whole(1)), Null, Undef),
    ItemRequest(<<"d">>, <<"C">>, "", "", Num(Whole(2)), Num(10), "false"),
    ItemRequest(<<"d">>, <<"d">>, "Cover", "Aster Cover", Num(Whole(1)), Num(10), "true") }

ResetRequests ==
  { [secret |-> s, confirm |-> c, connected |-> TRUE] :
      s \in {ExpectedSecret, "wrong", Undef}, c \in {"RESET_ALL", Undef} }
    \cup { [secret |-> ExpectedSecret, confirm |-> "RESET_ALL", connected |-> FALSE] }

\* the slip requests that run next to the item requests
ItemsCreateRequests == { CreateRequest(<<LineA1>>, "", Num(100), Num(100), TRUE) }

ItemsInit == Init

PostItemRequest ==
  /\ clock <= MaxOps
  /\ \E req \in ItemRequests :
       /\ Finish(req, CreateItem(Db, req, clock))
       /\ UNCHANGED <<nextId, soldFrom>>

PatchItemStock ==
  /\ clock <= MaxOps
  /\ \E i \in ItemIds, operation \in StockOperations, quantity \in StockQuantities :
       /\ Finish([operation |-> operation, quantity |-> quantity],
                 PatchStock(Db, i, operation, quantity, clock))
       /\ UNCHANGED <<nextId, soldFrom>>

DeleteAll ==
  /\ clock <= MaxOps
  /\ \E connected \in BOOLEAN :
       /\ Finish([connected |-> connected], DeleteAllItems(Db, connected))
       /\ UNCHANGED <<nextId, soldFrom>>

ResetAll ==
  /\ clock <= MaxOps
  /\ \E req \in ResetRequests :
       LET out == Reset(Db, req)
       IN  /\ Finish(req, out)
           /\ soldFrom' = IF out.resp.code = 200 THEN [i \in {} |-> <<>>] ELSE soldFrom
           /\ UNCHANGED nextId

\* the slip workflow with one request to sell from
SellOne == Create /\ last'.req \in ItemsCreateRequests

ItemsNext ==
  \/ SellOne \/ Cancel \/ Delete
  \/ PostItemRequest \/ PatchItemStock \/ DeleteItem \/ DeleteAll \/ ResetAll

ItemsSpec == ItemsInit /\ [][ItemsNext]_vars

(***************************************************************************)
(* Item creation requests that overlap.  POST /items uses no transaction:  *)
(* it reads the collection for an active Item with the SKU, and saves the  *)
(* new Item later; the sku path of the schema has no unique index.         *)
(***************************************************************************)
IdlePost == [pc |-> "idle", req |-> NoRequest, code |-> 0, item |-> <<>>]

SkuInit ==
  /\ InitStore
  /\ pricing = NoPricing
  /\ conc = [stage |-> "post", post |-> [t \in Sessions |-> IdlePost]]

\* POST /items up to the validations: the SKU is looked for among the Items
\* of this moment
PostCheck ==
  \E t \in Sessions, req \in ItemRequests :
    LET out == PostItem(items, req, clock)
    IN  /\ conc.stage = "post"
        /\ conc.post[t].pc = "idle"
        /\ conc' = [conc EXCEPT
                      !.post[t] = [pc |-> IF out.code = 201 THEN "save" ELSE "done",
                                   req |-> req, code |-> out.code, item |-> out.item]]
        /\ clock' = clock + 1
        /\ UNCHANGED <<items, slips, incomes, nextId, last, prev, soldFrom, pricing>>

\* newItem.save(): an insert that no index can refuse
PostSave ==
  \E t \in Sessions :
    /\ conc.stage = "post"
    /\ conc.post[t].pc = "save"
    /\ items' = Append(items, conc.post[t].item)
    /\ conc' = [conc EXCEPT !.post[t] = [@ EXCEPT !.pc = "done"]]
    /\ UNCHANGED <<slips, incomes, nextId, clock, last, prev, soldFrom, pricing>>

SkuNext == PostCheck \/ PostSave

SkuSpec == SkuInit /\ [][SkuNext]_vars

(***************************************************************************)
(* The slip workflow over lines that every lookup resolves to one Item:    *)
(* whole quantities of an Item the line names exactly and also describes   *)
(* by its type attributes.                                                 *)
(***************************************************************************)
StockProductLists == {<<>>, <<LineA1>>, <<LineA2>>, <<LineA1, LineB1>>, <<LineA1, LineB3>>}

StockCreateRequests == {req \in CreateRequests : req.products \in StockProductLists}

StockPatches == {patch \in Patches : patch.products \in StockProductLists}

StockCreate == Create /\ last'.req \in StockCreateRequests

StockUpdate == Update /\ last'.req \in StockPatches

StockNext == StockCreate \/ Cancel \/ StockUpdate \/ Delete

StockSpec == Init /\ [][StockNext]_vars

(***************************************************************************)
(* Cancel and Delete requests for one slip that overlap.  Each handler     *)
(* runs in a transaction: it reads the collections as they were at its     *)
(* first read, and a write to a document that another transaction in       *)
(* flight has written, or that was written by a commit after that first    *)
(* read, fails with a write conflict that the handler's catch turns into   *)
(* an abort and a 500.                                                     *)
(***************************************************************************)
Doc(collection, key) == [c |-> collection, k |-> key]

\* the documents an updateMany over the slip's active income records writes
IncomeDocs(db, slip) ==
  LET all == [n \in 1..Len(db.incomes) |-> Doc("income", n)]
  IN  SelectSeq(all, LAMBDA d : IncomeOfSlip(db.incomes[d.k], slip))

\* the Items the $inc loop writes, in the order of the lines
ItemDocs(targets) ==
  LET all == [k \in 1..Len(targets) |-> Doc("item", targets[k])]
  IN  SelectSeq(all, LAMBDA d : d.k # 0)

\* the documents a reversal writes, in the order its handler writes them
ReversalWrites(op, db, id) ==
  LET slip == db.slips[id]
      lines == slip.products
  IN  IF op = "Cancel"
        THEN IncomeDocs(db, slip)
               \o ItemDocs([k \in 1..Len(lines) |-> CancelTarget(db.items, lines[k])])
               \o <<Doc("slip", id)>>
      ELSE ItemDocs([k \in 1..Len(lines) |-> DeleteTarget(db.items, lines[k])])
             \o IncomeDocs(db, slip)
             \o <<Doc("slip", id)>>

\* what the handler does to the collections it read
Reversal(op, db, id, now) ==
  IF op = "Cancel" THEN CancelSlip(db, id, "", now) ELSE DeleteSlip(db, id, now)

IdleReversal ==
  [pc |-> "idle", op |-> "", id |-> 0, at |-> 0, snap |-> <<>>, todo |-> <<>>,
   wrote |-> {}, stale |-> {}, resp |-> NoResponse]

ReversalOps == {"Cancel", "Delete"}

\* the slips the overlapping requests are about
ReverseCreateRequests ==
  { CreateRequest(l, "", Num(100), Num(100), TRUE) :
      l \in {<<LineA1>>, <<LineA1, LineB1>>, <<LineUnnamed>>} }

\* one committed Create has left a slip, its income record and the stock
ReverseInit ==
  \E req \in ReverseCreateRequests :
    LET out == CreateSlip([items |-> Catalogue, slips |-> [i \in {} |-> 0],
                           incomes |-> <<>>], req, 1, 1)
    IN  /\ items = out.db.items
        /\ slips = out.db.slips
        /\ incomes = out.db.incomes
        /\ soldFrom = (1 :> out.sold)
        /\ nextId = 2
        /\ clock = 2
        /\ last = [req |-> req, resp |-> out.resp, itemsBefore |-> Catalogue]
        /\ prev = [req |-> NoRequest, resp |-> NoResponse, itemsBefore |-> Catalogue]
        /\ pricing = NoPricing
        /\ conc = [stage |-> "reverse",
                   txn |-> [t \in Sessions |-> IdleReversal],
                   start |-> out.db,
                   commits |-> 0,
                   deactivated |-> 0]

ReversalInFlight(tx) == tx.pc \in {"write", "commit"}

\* a request arrives while no reversal of the slip has been committed, so that
\* it overlaps the one committed first: startSession and startTransaction
ReverseArrive ==
  \E t \in Sessions, op \in ReversalOps, id \in RequestIds :
    /\ conc.stage = "reverse"
    /\ conc.txn[t].pc = "idle"
    /\ conc.commits = 0
    /\ conc' = [conc EXCEPT !.txn[t] = [IdleReversal EXCEPT !.pc = "read", !.op = op,
                                                            !.id = id]]
    /\ UNCHANGED <<items, slips, incomes, nextId, clock, last, prev, soldFrom, pricing>>

\* the write of transaction t to doc cannot go through
TxnConflict(c, t, doc) ==
  \/ \E u \in Sessions \ {t} : ReversalInFlight(c.txn[u]) /\ doc \in c.txn[u].wrote
  \/ doc \in c.txn[t].stale

\* the handler up to its first write: the slip is read and the 404 and 400
\* exits are taken on what was read
ReverseBegin ==
  \E t \in Sessions :
    LET op == conc.txn[t].op
        id == conc.txn[t].id
        out == Reversal(op, Db, id, clock)
    IN  /\ conc.stage = "reverse"
        /\ conc.txn[t].pc = "read"
        /\ conc' = [conc EXCEPT
                      !.txn[t] =
                        IF out.resp.code # 200
                          THEN [IdleReversal EXCEPT !.pc = "done", !.op = op, !.id = id,
                                                    !.resp = out.resp]
                          ELSE [pc |-> "write", op |-> op, id |-> id, at |-> clock,
                                snap |-> Db, todo |-> ReversalWrites(op, Db, id),
                                wrote |-> {}, stale |-> {}, resp |-> NoResponse]]
        /\ UNCHANGED <<items, slips, incomes, nextId, clock, last, prev, soldFrom, pricing>>

\* one write of the handler, or the write conflict that ends it
ReverseWrite ==
  \E t \in Sessions :
    LET tx == conc.txn[t]
        doc == Head(tx.todo)
    IN  /\ conc.stage = "reverse"
        /\ tx.pc = "write"
        /\ conc' = [conc EXCEPT
                      !.txn[t] =
                        IF TxnConflict(conc, t, doc)
                          THEN [IdleReversal EXCEPT
                                  !.pc = "done", !.op = tx.op, !.id = tx.id,
                                  !.resp = Response(tx.op, tx.id, 500, "Internal", 0, 0, 0,
                                                    "aborted")]
                          ELSE [tx EXCEPT !.wrote = @ \cup {doc},
                                          !.todo = Tail(@),
                                          !.pc = IF Len(tx.todo) = 1 THEN "commit"
                                                 ELSE "write"]]
        /\ UNCHANGED <<items, slips, incomes, nextId, clock, last, prev, soldFrom, pricing>>

\* commitTransaction: the writes of the transaction reach the collections
ReverseCommit ==
  \E t \in Sessions :
    LET tx == conc.txn[t]
        out == Reversal(tx.op, tx.snap, tx.id, tx.at)
        changed == {n \in 1..Len(incomes) :
                      Doc("income", n) \in tx.wrote /\ incomes[n].isActive}
    IN  /\ conc.stage = "reverse"
        /\ tx.pc = "commit"
        /\ items' = [i \in 1..Len(items) |->
                       IF Doc("item", i) \in tx.wrote
                         THEN [items[i] EXCEPT
                                 !.quantity = @ + out.db.items[i].quantity
                                                - tx.snap.items[i].quantity]
                         ELSE items[i]]
        /\ incomes' = [n \in 1..Len(incomes) |->
                         IF Doc("income", n) \in tx.wrote THEN out.db.incomes[n]
                         ELSE incomes[n]]
        /\ slips' = IF tx.id \notin DOMAIN slips THEN slips
                    ELSE IF tx.op = "Delete" THEN RemoveKey(slips, tx.id)
                    ELSE [slips EXCEPT ![tx.id] = out.db.slips[tx.id]]
        /\ soldFrom' = IF tx.op = "Delete" THEN RemoveKey(soldFrom, tx.id) ELSE soldFrom
        /\ conc' = [conc EXCEPT
                      !.txn = [u \in Sessions |->
                                 IF u = t
                                   THEN [IdleReversal EXCEPT !.pc = "done", !.op = tx.op,
                                                             !.id = tx.id, !.resp = out.resp]
                                 ELSE IF ReversalInFlight(conc.txn[u])
                                   THEN [conc.txn[u] EXCEPT !.stale = @ \cup tx.wrote]
                                 ELSE conc.txn[u]],
                      !.commits = @ + 1,
                      !.deactivated = @ + Cardinality(changed)]
        /\ UNCHANGED <<nextId, clock, last, prev, pricing>>

ReverseNext == ReverseArrive \/ ReverseBegin \/ ReverseWrite \/ ReverseCommit

ReverseSpec == ReverseInit /\ [][ReverseNext]_vars

(***************************************************************************)
(* Properties                                                              *)
(***************************************************************************)
SameCollections == items' = items /\ slips' = slips /\ incomes' = incomes

ActiveIncomesOf(slip) == {n \in 1..Len(incomes) : IncomeOfSlip(incomes[n], slip)}

Distinct(seq) == \A j, k \in DOMAIN seq : j # k => seq[j] # seq[k]

\* C1: after every committed transaction of any sequence of Create, Cancel,
\* Update and Delete (several lines of a request may resolve to the same
\* Item), every Item's quantity is >= 0.
C1_StockNeverNegative == \A i \in 1..Len(items) : items[i].quantity >= 0

\* C2: if some line of a Create request does not resolve to an Item, or asks
\* for more than the Item has, the request changes no Item quantity and
\* creates no Slip and no IncomeRecord.
C2_CreateRejectedChangesNothing ==
  [][ (/\ last'.resp.op = "Create"
       /\ \E k \in 1..Len(last'.req.products) :
            \/ CreateResolve(items, last'.req.products[k]) = 0
            \/ CreateShort(items, last'.req.products[k]))
      => SameCollections ]_vars

\* C2 witness: a Create was rejected at its second line for insufficient stock
C2_Witness ==
  /\ last.resp.op = "Create"
  /\ last.resp.error = "InsufficientStock"
  /\ last.resp.line = 2

\* a Cancel, or an Update with status = Cancelled, of a slip that is Cancelled
CancelOfCancelled ==
  /\ last'.resp.op \in {"Cancel", "Update"}
  /\ last'.resp.id \in DOMAIN slips
  /\ slips[last'.resp.id].status = "Cancelled"
  /\ last'.resp.op = "Update" => last'.req.status = "Cancelled"

\* C3 (as stated): cancelling an already-cancelled slip, by Cancel or by an
\* Update with status = Cancelled, always fails with AlreadyCancelled and
\* leaves Items, IncomeRecords and the slip unchanged.
C3_AlwaysAlreadyCancelled ==
  [][ CancelOfCancelled
      => (last'.resp.error = "AlreadyCancelled" /\ SameCollections) ]_vars

\* C3 (amended): cancelling an already-cancelled slip always fails with a 400
\* response and leaves Items, IncomeRecords and the slip unchanged; the error
\* is AlreadyCancelled, except that an Update whose new product lines are
\* rejected fails with that rejection (the lines are checked first).
C3_CancelOfCancelledFails ==
  [][ CancelOfCancelled
      => /\ last'.resp.code = 400
         /\ SameCollections
         /\ \/ last'.resp.error = "AlreadyCancelled"
            \/ /\ last'.resp.op = "Update"
               /\ last'.req.hasProducts
               /\ last'.resp.line # 0
               /\ last'.resp.error \in {"Validation", "ProductNotFound", "InsufficientStock"} ]_vars

\* C3 witness: an Update with status = Cancelled and new lines reached the
\* duplicate-cancel guard after its stock writes
C3_Witness ==
  /\ last.resp.op = "Update"
  /\ last.req.status = "Cancelled"
  /\ last.req.hasProducts
  /\ last.resp.error = "AlreadyCancelled"

\* C4: once a slip is Cancelled no later operation makes it Pending or Paid.
C4_CancelledIsTerminal ==
  [][ \A id \in DOMAIN slips :
        (slips[id].status = "Cancelled" /\ id \in DOMAIN slips')
          => slips'[id].status = "Cancelled" ]_vars

\* C5: for every slip, status = Cancelled if and only if cancelledAt is set.
C5_CancelledIffCancelledAt ==
  \A id \in DOMAIN slips : (slips[id].status = "Cancelled") <=> (slips[id].cancelledAt # 0)

\* C6: for every non-cancelled slip, its active IncomeRecord has totalIncome
\* equal to the slip's totalAmount and productsSold quantities and totalPrices
\* equal to those of the slip's lines.
C6_IncomeMirrorsSlip ==
  \A id \in DOMAIN slips :
    slips[id].status # "Cancelled" =>
      \A n \in ActiveIncomesOf(slips[id]) :
        /\ incomes[n].totalIncome = slips[id].totalAmount
        /\ Len(incomes[n].productsSold) = Len(slips[id].products)
        /\ \A k \in 1..Len(slips[id].products) :
             /\ incomes[n].productsSold[k].quantity = slips[id].products[k].quantity
             /\ incomes[n].productsSold[k].totalPrice = slips[id].products[k].totalPrice

\* C7: every existing non-cancelled slip has exactly one active IncomeRecord
\* referencing it.
C7_OneActiveIncomePerSlip ==
  \A id \in DOMAIN slips :
    slips[id].status # "Cancelled" => Cardinality(ActiveIncomesOf(slips[id])) = 1

\* C8: Create followed by Cancel of the created slip, with every line's Item
\* resolved, returns every Item quantity to its value before the Create.
C8_CreateCancelRoundTrip ==
  (/\ prev.resp.op = "Create" /\ prev.resp.code = 201
   /\ last.resp.op = "Cancel" /\ last.resp.code = 200
   /\ last.resp.id = prev.resp.id
   /\ last.resp.inventoryItemsRestored = Len(slips[last.resp.id].products))
  => \A i \in 1..Len(items) : items[i].quantity = prev.itemsBefore[i].quantity

\* C9: deleting a non-cancelled slip whose lines are on distinct Items raises
\* each such Item's quantity by exactly its line's quantity, deactivates
\* exactly one IncomeRecord, removes the Slip and reports these counts.
C9_DeleteRestores ==
  [][ (/\ last'.resp.op = "Delete" /\ last'.resp.code = 200
       /\ slips[last'.resp.id].status # "Cancelled"
       /\ Distinct(soldFrom[last'.resp.id]))
      => LET id == last'.resp.id
             lines == slips[id].products
         IN  /\ \A i \in 1..Len(items) :
                  items'[i].quantity
                    = items[i].quantity + QuantityOn(lines, soldFrom[id], i, 1)
             /\ Cardinality({n \in 1..Len(incomes) :
                               incomes[n].isActive /\ ~incomes'[n].isActive}) = 1
             /\ Len(incomes') = Len(incomes)
             /\ id \notin DOMAIN slips'
             /\ last'.resp.inventoryItemsRestored = Len(lines)
             /\ last'.resp.incomeRecordsUpdated = 1 ]_vars

\* C10: a successful Create takes from each resolved Item exactly the quantity
\* recorded on the slip lines written for it, inserts one Paid Slip carrying
\* the priced lines, and inserts one active IncomeRecord that references the
\* Slip and whose totalIncome is the Slip's totalAmount.
C10_CreateEffect ==
  [][ (last'.resp.op = "Create" /\ last'.resp.code = 201)
      => LET id == last'.resp.id
             lines == slips'[id].products
             r == incomes'[Len(incomes')]
         IN  /\ DOMAIN slips' = DOMAIN slips \cup {id} /\ id \notin DOMAIN slips
             /\ slips'[id].status = "Paid"
             /\ Len(lines) = Len(last'.req.products)
             /\ \A k \in 1..Len(lines) : lines[k] = ProcessProduct(last'.req.products[k])
             /\ \A i \in 1..Len(items) :
                  items'[i].quantity
                    = items[i].quantity - QuantityOn(lines, soldFrom'[id], i, 1)
             /\ Len(incomes') = Len(incomes) + 1
             /\ SubSeq(incomes', 1, Len(incomes)) = incomes
             /\ r.isActive /\ r.slipId = id /\ r.slipNumber = slips'[id].slipNumber
             /\ r.totalIncome = slips'[id].totalAmount ]_vars

\* C11: when two Creates that ask for the same Item are in flight together,
\* the quantities of the Creates that commit never add up to more than the
\* Item's stock, and the Item's quantity never becomes negative.
C11_ConcurrentCreatesNeverOversell ==
  (conc.stage = "run" /\ conc.overlapped /\ conc.adjust.pc = "idle")
  => \A i \in 1..Len(items) :
       /\ items[i].quantity >= 0
       /\ conc.sold[i] <= Catalogue[i].quantity

\* C12: when a stock adjustment of the items router (read the quantity,
\* compute the new one, save it) and slip Creates on the same Item are in
\* flight together, the Item's quantity reflects all of them: it is what the
\* committed operations give when applied one after the other.
C12_NoLostUpdate ==
  conc.stage = "run" => \A i \in 1..Len(items) : items[i].quantity = conc.expected[i]

\* C15: every line persisted on a slip by Create or by Update has
\* totalPrice = quantity x unitPrice, whatever totalPrice the caller sent.
C15_LineTotals ==
  \A id \in DOMAIN slips :
    \A k \in 1..Len(slips[id].products) :
      2 * slips[id].products[k].totalPrice
        = slips[id].products[k].quantity * slips[id].products[k].unitPrice

\* C15 witness: a Create and then an Update each persisted a line for which
\* the caller had sent a total of its own
C15_Witness ==
  /\ prev.resp.op = "Create" /\ prev.resp.code = 201
  /\ \E k \in 1..Len(prev.req.products) : IsNum(prev.req.products[k].totalPrice)
  /\ last.resp.op = "Update" /\ last.resp.code = 200
  /\ last.req.hasProducts
  /\ \E k \in 1..Len(last.req.products) :
       /\ IsNum(last.req.products[k].totalPrice)
       /\ last.req.products[k].totalPrice.v # slips[last.resp.id].products[k].totalPrice
  /\ DOMAIN slips = {1}
  /\ last.resp.id = 1

\* a request amount that is missing, is not a number, or is negative
BadAmount(x) == x.kind # "num" \/ x.v < 0

\* C16: a Create whose product list is empty, or whose subtotal or totalAmount
\* is missing, non-numeric or negative, is rejected with 400 and changes no
\* Item, Slip or IncomeRecord (the store being available).
C16_InvalidRequestRejected ==
  [][ (/\ last'.resp.op = "Create"
       /\ last'.req.connected
       /\ \/ Len(last'.req.products) = 0
          \/ BadAmount(last'.req.subtotal)
          \/ BadAmount(last'.req.totalAmount))
      => (last'.resp.code = 400 /\ SameCollections) ]_vars

\* a request line asks for a quantity <= 0 or carries a negative base price
InvalidLine(p) ==
  \/ IsNum(p.quantity) /\ p.quantity.v <= 0
  \/ IsNum(p.basePrice) /\ p.basePrice.v < 0

\* C17: a Create with a line whose quantity is <= 0 or whose base price is
\* negative is answered with a 400 validation error, not a 500, and changes
\* no Item, Slip or IncomeRecord (the store being available).
C17_InvalidLineIs400 ==
  [][ (/\ last'.resp.op = "Create"
       /\ last'.req.connected
       /\ \E k \in 1..Len(last'.req.products) : InvalidLine(last'.req.products[k]))
      => (last'.resp.code = 400 /\ SameCollections) ]_vars

\* a Create request that gets as far as the validation of its lines
ReachesLines(req) ==
  /\ req.connected
  /\ Len(req.products) > 0
  /\ ParsesAsNumber(req.subtotal) /\ req.subtotal.v >= 0
  /\ ParsesAsNumber(req.totalAmount) /\ req.totalAmount.v >= 0

\* the line resolves to an Item that has less than the line asks for
ResolvedButShort(its, p) ==
  /\ CreateResolve(its, p) # 0
  /\ IsNum(p.quantity)
  /\ its[CreateResolve(its, p)].quantity < p.quantity.v

\* the first line, in request order, that resolves to no Item or is short
FirstFailingLine(its, products) ==
  FirstIndex({k \in 1..Len(products) :
                CreateResolve(its, products[k]) = 0 \/ ResolvedButShort(its, products[k])})

\* a Create commits only if every line resolved to an Item with enough stock
CommitsOnlyIfAllLinesCovered ==
  (last'.resp.op = "Create" /\ last'.resp.code = 201)
  => \A k \in 1..Len(last'.req.products) :
       /\ CreateResolve(items, last'.req.products[k]) # 0
       /\ ~ResolvedButShort(items, last'.req.products[k])

\* C18 (as stated): a Create fails with ProductNotFound (400) exactly when
\* some line resolves to no active Item, by attributes or by name/SKU; it
\* fails with InsufficientStock (400) when a resolved Item has less than the
\* line asks for; it commits only if every line resolved to an Item with
\* quantity >= the requested quantity.
C18_NotFoundIffSomeLineUnresolved ==
  [][ (last'.resp.op = "Create" /\ ReachesLines(last'.req))
      => LET products == last'.req.products
         IN  /\ (last'.resp.code = 400 /\ last'.resp.error = "ProductNotFound")
                   <=> \E k \in 1..Len(products) : CreateResolve(items, products[k]) = 0
             /\ last'.resp.error = "InsufficientStock"
                   => /\ last'.resp.code = 400
                      /\ \E k \in 1..Len(products) : ResolvedButShort(items, products[k])
             /\ CommitsOnlyIfAllLinesCovered ]_vars

\* C18 (amended): a Create fails at the first line, in request order, that
\* resolves to no active Item or whose Item has less than the line asks for:
\* with ProductNotFound (400) exactly when that line resolves to no Item,
\* with InsufficientStock (400, reporting the Item's quantity) exactly when
\* its Item is short; it commits only if every line resolved to an Item with
\* quantity >= the requested quantity.
C18_FirstFailingLineDecides ==
  [][ (last'.resp.op = "Create" /\ ReachesLines(last'.req))
      => LET products == last'.req.products
             f == FirstFailingLine(items, products)
             i == CreateResolve(items, products[f])
         IN  /\ (last'.resp.error = "ProductNotFound") <=> (f # 0 /\ i = 0)
             /\ (last'.resp.error = "InsufficientStock") <=> (f # 0 /\ i # 0)
             /\ f # 0 => (last'.resp.code = 400 /\ last'.resp.line = f /\ SameCollections)
             /\ (f # 0 /\ i # 0) => last'.resp.available = items[i].quantity
             /\ CommitsOnlyIfAllLinesCovered ]_vars

\* C18 witness: a Create with a line that resolves to nothing was rejected
\* for the insufficient stock of an earlier line
C18_Witness ==
  /\ last.resp.op = "Create"
  /\ last.resp.error = "InsufficientStock"
  /\ last.resp.line = 1
  /\ \E k \in 1..Len(last.req.products) : CreateResolve(items, last.req.products[k]) = 0

\* C19: an Update that fails (a new line invalid, not found or short of stock,
\* or the slip already cancelled) leaves every Item quantity, the Slip and
\* its IncomeRecords as they were before the request, although the stock of
\* the old lines had been put back earlier in the same transaction.
C19_FailedUpdateChangesNothing ==
  [][ (last'.resp.op = "Update" /\ last'.resp.code # 200) => SameCollections ]_vars

\* C19 witness: an Update was rejected for insufficient stock of a new line
\* after the stock of an old line of the slip had been put back
C19_Witness ==
  /\ last.resp.op = "Update"
  /\ last.resp.error = "InsufficientStock"
  /\ last.req.hasProducts
  /\ last.resp.id \in DOMAIN slips
  /\ \E k \in 1..Len(slips[last.resp.id].products) :
       UpdateRestoreTarget(items, slips[last.resp.id].products[k]) # 0

\* C20: Cancel, Update and Delete of a slip id that does not exist fail with
\* NotFound (404) and change nothing.
C20_UnknownSlipIsNotFound ==
  [][ (/\ last'.resp.op \in {"Cancel", "Update", "Delete"}
       /\ last'.resp.id \notin DOMAIN slips)
      => /\ last'.resp.code = 404
         /\ last'.resp.error = "NotFound"
         /\ SameCollections ]_vars

\* C20 witness: a slip was created and deleted, and an Update then named it
C20_Witness ==
  /\ prev.resp.op = "Delete" /\ prev.resp.code = 200
  /\ last.resp.op = "Update" /\ last.resp.code = 404
  /\ last.resp.id = prev.resp.id
  /\ last.resp.id \notin DOMAIN slips

\* the case of the bulk rule, read off a priced line
BulkCase(l) ==
  /\ l.productType = "Cover"
  /\ l.coverType \in {"Aster Cover", "Without Aster Cover", "Calendar Cover"}
  /\ l.quantity >= Whole(10)

\* C13: a line priced by Create without a caller-supplied unit price: if it is
\* a Cover of a bulk cover type with quantity >= 10, then discountType = bulk,
\* unitPrice = basePrice - 10 clamped to >= 0, discountAmount = 10 x quantity
\* and totalPrice = quantity x unitPrice; otherwise discountType = none,
\* discountAmount = 0 and unitPrice = basePrice.
C13_BulkRule ==
  (pricing.stage = "priced" /\ pricing.line.unitPrice.kind = "null")
  => LET l == pricing.out
     IN  IF BulkCase(l)
           THEN /\ l.discountType = "bulk"
                /\ l.unitPrice = (IF l.basePrice >= 10 THEN l.basePrice - 10 ELSE 0)
                /\ 2 * l.discountAmount = 10 * l.quantity
                /\ 2 * l.totalPrice = l.quantity * l.unitPrice
           ELSE /\ l.discountType = "none"
                /\ l.discountAmount = 0
                /\ l.unitPrice = l.basePrice

\* C13 witness: exactly ten Aster Covers were priced, no unit price given
C13_Witness ==
  /\ pricing.stage = "priced"
  /\ pricing.line.unitPrice.kind = "null"
  /\ pricing.out.quantity = Whole(10)
  /\ pricing.out.basePrice = 100
  /\ pricing.out.discountType = "bulk"

\* the unit price the caller supplied differs from basePrice minus the
\* per-unit bulk discount
SuppliedDiffers(l, supplied) ==
  supplied # l.basePrice - (IF BulkCase(l) THEN 10 ELSE 0)

\* C14 (as stated): a line priced by Create with a caller-supplied unit price:
\* if the price differs from basePrice minus the per-unit bulk discount, it is
\* the line's unitPrice, discountType = manual and the line's discountAmount is
\* max(0, basePrice - supplied) x quantity; if it does not differ,
\* discountType is what the bulk rule gave.
C14_SuppliedPriceIsUnitPrice ==
  (pricing.stage = "priced" /\ IsNum(pricing.line.unitPrice))
  => LET l == pricing.out
         supplied == pricing.line.unitPrice.v
         perUnit == IF l.basePrice >= supplied THEN l.basePrice - supplied ELSE 0
     IN  IF SuppliedDiffers(l, supplied)
           THEN /\ l.unitPrice = supplied
                /\ l.discountType = "manual"
                /\ 2 * l.discountAmount = l.quantity * perUnit
           ELSE l.discountType = (IF BulkCase(l) THEN "bulk" ELSE "none")

\* C14 (amended): as stated, except that the line's unitPrice is the supplied
\* price clamped to >= 0.
C14_SuppliedPriceClamped ==
  (pricing.stage = "priced" /\ IsNum(pricing.line.unitPrice))
  => LET l == pricing.out
         supplied == pricing.line.unitPrice.v
         perUnit == IF l.basePrice >= supplied THEN l.basePrice - supplied ELSE 0
     IN  IF SuppliedDiffers(l, supplied)
           THEN /\ l.unitPrice = (IF supplied >= 0 THEN supplied ELSE 0)
                /\ l.discountType = "manual"
                /\ 2 * l.discountAmount = l.quantity * perUnit
           ELSE l.discountType = (IF BulkCase(l) THEN "bulk" ELSE "none")

\* C14 witness: a negative unit price was supplied and the line was priced
C14_Witness ==
  /\ pricing.stage = "priced"
  /\ IsNum(pricing.line.unitPrice)
  /\ pricing.line.unitPrice.v < 0
  /\ pricing.out.discountType = "manual"
  /\ pricing.out.unitPrice = 0

\* C21: an Update with status = Cancelled on a slip that is not Cancelled does
\* the income deactivation and the inventory restoration of Cancel: the Item
\* quantities, the active flags of the IncomeRecords and the slip's status and
\* cancelledAt after it are those a Cancel of the slip gives from the same state.
C21_UpdateCancelLikeCancel ==
  [][ (/\ last'.resp.op = "Update"
       /\ last'.resp.code = 200
       /\ last'.req.status = "Cancelled"
       /\ slips[last'.resp.id].status # "Cancelled")
      => LET id == last'.resp.id
             byCancel == CancelSlip(Db, id, "", clock).db
         IN  /\ \A i \in 1..Len(items) :
                  items'[i].quantity = byCancel.items[i].quantity
             /\ Len(incomes') = Len(byCancel.incomes)
             /\ \A n \in 1..Len(incomes') :
                  incomes'[n].isActive = byCancel.incomes[n].isActive
             /\ slips'[id].status = byCancel.slips[id].status
             /\ slips'[id].cancelledAt = byCancel.slips[id].cancelledAt ]_vars

\* the stock the new lines of an update are checked against: the old lines are back
StockAfterOldLinesReturned(slip) ==
  RestoreStock(items,
               [k \in 1..Len(slip.products) |-> UpdateRestoreTarget(items, slip.products[k])],
               slip.products, 1)

\* the priced fields of a product line
PricedFields(l) ==
  [unitPrice |-> l.unitPrice, discountAmount |-> l.discountAmount,
   discountType |-> l.discountType, totalPrice |-> l.totalPrice]

\* C22: an Update that carries products treats the new lines as Create treats the
\* lines of a request: it accepts them exactly when Create would accept them against
\* the same inventory, resolves every line to the Item Create would resolve it to,
\* and stores the priced line (unitPrice, discountAmount, discountType, totalPrice)
\* Create would store.
C22_UpdateLinesLikeCreate ==
  [][ (/\ last'.resp.op = "Update"
       /\ last'.resp.code # 404
       /\ last'.req.hasProducts)
      => LET id == last'.resp.id
             products == last'.req.products
             stock == StockAfterOldLinesReturned(slips[id])
             accepted == ~(last'.resp.code = 400 /\ last'.resp.line # 0)
         IN  /\ accepted <=> CreateFirstRejected(stock, products) = 0
             /\ last'.resp.code = 200
                  => \A k \in 1..Len(products) :
                       /\ soldFrom'[id][k] = CreateResolve(stock, products[k])
                       /\ PricedFields(slips'[id].products[k])
                            = PricedFields(ProcessProduct(products[k])) ]_vars

\* C23: when an Update replaces the single line of a slip, of quantity q_old and
\* sold from an Item, by a line of quantity q_new on the same Item, the new line
\* is accepted exactly when q_new <= before + q_old, and after the commit the
\* Item's quantity is before + q_old - q_new.
C23_ReplacedLineNetsOut ==
  [][ (/\ last'.resp.op = "Update"
       /\ last'.resp.code # 404
       /\ last'.req.hasProducts
       /\ last'.req.status = Undef
       /\ Len(last'.req.products) = 1
       /\ ~UpdateInvalid(last'.req.products[1])
       /\ Len(slips[last'.resp.id].products) = 1
       /\ soldFrom[last'.resp.id][1] # 0
       /\ UpdateResolve(items, last'.req.products[1]) = soldFrom[last'.resp.id][1])
      => LET id == last'.resp.id
             i == soldFrom[id][1]
             q_old == slips[id].products[1].quantity
             q_new == last'.req.products[1].quantity.v
             before == items[i].quantity
         IN  /\ ~(last'.resp.code = 400 /\ last'.resp.line # 0)
                  <=> q_new <= before + q_old
             /\ last'.resp.code = 200
                  => items'[i].quantity = before + q_old - q_new ]_vars

\* C24: when an Update changes the products of a slip that was not Cancelled and
\* is not Cancelled after it, then after the commit every active IncomeRecord of
\* the slip has the slip's new lines as productsSold, the slip's totalAmount as
\* totalIncome, and the slip's customer name, payment method and notes.
C24_IncomeFollowsUpdatedProducts ==
  [][ (/\ last'.resp.op = "Update"
       /\ last'.resp.code = 200
       /\ last'.req.hasProducts
       /\ slips[last'.resp.id].status # "Cancelled"
       /\ slips'[last'.resp.id].status # "Cancelled")
      => LET slip == slips'[last'.resp.id]
         IN  \A n \in 1..Len(incomes') :
               IncomeOfSlip(incomes'[n], slip)
                 => /\ incomes'[n].productsSold
                         = [k \in 1..Len(slip.products) |-> SoldProduct(slip.products[k])]
                    /\ incomes'[n].totalIncome = slip.totalAmount
                    /\ incomes'[n].customerName = slip.customerName
                    /\ incomes'[n].paymentMethod = slip.paymentMethod
                    /\ incomes'[n].notes.text = slip.notes ]_vars

\* an Update gave a slip with an active IncomeRecord new lines, a new total, a new
\* customer name, a new payment method and new notes
C24_Witness ==
  /\ last.resp.op = "Update"
  /\ last.resp.code = 200
  /\ last.req.hasProducts
  /\ last.req.customerName = "c"
  /\ last.req.hasNotes
  /\ last.resp.id \in DOMAIN slips
  /\ slips[last.resp.id].status = "Paid"
  /\ \E n \in 1..Len(incomes) :
       /\ IncomeOfSlip(incomes[n], slips[last.resp.id])
       /\ incomes[n].customerName = "c"
       /\ incomes[n].totalIncome = 200

\* C25: an Update is partial. After a committed Update every slip field the patch
\* does not carry has the value it had (cancelledAt changes only when the Update
\* cancels the slip), and an Update without products that does not cancel the slip
\* changes no Item quantity.
C25_UpdateIsPartial ==
  [][ (last'.resp.op = "Update" /\ last'.resp.code # 404)
      => LET id == last'.resp.id
             patch == last'.req
             old == slips[id]
             new == slips'[id]
             cancels == patch.status = "Cancelled" /\ old.status # "Cancelled"
         IN  /\ last'.resp.code = 200
                  => /\ patch.customerName = Undef => new.customerName = old.customerName
                     /\ patch.customerPhone = Undef => new.customerPhone = old.customerPhone
                     /\ patch.paymentMethod = Undef => new.paymentMethod = old.paymentMethod
                     /\ ~patch.hasNotes => new.notes = old.notes
                     /\ ~IsNum(patch.subtotal) => new.subtotal = old.subtotal
                     /\ ~IsNum(patch.totalAmount) => new.totalAmount = old.totalAmount
                     /\ patch.status = Undef => new.status = old.status
                     /\ ~patch.hasProducts => new.products = old.products
                     /\ ~cancels => new.cancelledAt = old.cancelledAt
                     /\ new.id = old.id /\ new.slipNumber = old.slipNumber
             /\ (~patch.hasProducts /\ ~cancels)
                  => \A i \in 1..Len(items) : items'[i].quantity = items[i].quantity ]_vars

\* an Update that carries a total and nothing else was committed on a slip that
\* has notes, a cancellation date and product lines
C25_Witness ==
  /\ last.resp.op = "Update"
  /\ last.resp.code = 200
  /\ IsNum(last.req.totalAmount)
  /\ ~last.req.hasProducts
  /\ ~last.req.hasNotes
  /\ last.req.status = Undef
  /\ last.resp.id \in DOMAIN slips
  /\ slips[last.resp.id].notes # <<>>
  /\ slips[last.resp.id].cancelledAt # 0
  /\ slips[last.resp.id].products # <<>>
  /\ slips[last.resp.id].totalAmount = last.req.totalAmount.v

\* C26: a Cancel is a soft operation: it never removes a Slip, it leaves the
\* slip's product lines, subtotal, totalAmount, customer and payment fields as
\* they were, and it changes nothing of the slip but status, cancelledAt and,
\* when a reason is given, notes.
C26_CancelKeepsSlip ==
  [][ last'.resp.op = "Cancel"
      => /\ DOMAIN slips' = DOMAIN slips
         /\ \A id \in DOMAIN slips :
              /\ slips'[id].products = slips[id].products
              /\ slips'[id].subtotal = slips[id].subtotal
              /\ slips'[id].totalAmount = slips[id].totalAmount
              /\ slips'[id].customerName = slips[id].customerName
              /\ slips'[id].customerPhone = slips[id].customerPhone
              /\ slips'[id].paymentMethod = slips[id].paymentMethod
              /\ slips'[id].id = slips[id].id
              /\ slips'[id].slipNumber = slips[id].slipNumber
              /\ last'.req.reason = "" => slips'[id].notes = slips[id].notes
              /\ id # last'.resp.id => slips'[id] = slips[id] ]_vars

\* a slip with product lines and a positive total was cancelled with a reason
C26_Witness ==
  /\ last.resp.op = "Cancel"
  /\ last.resp.code = 200
  /\ last.req.reason # ""
  /\ last.resp.id \in DOMAIN slips
  /\ slips[last.resp.id].status = "Cancelled"
  /\ slips[last.resp.id].cancelledAt # 0
  /\ slips[last.resp.id].notes # <<>>
  /\ slips[last.resp.id].products # <<>>
  /\ slips[last.resp.id].totalAmount > 0

\* C27: the Cancel of a slip that is not Cancelled is best-effort: it commits
\* whether or not every line resolves to an Item; every line that resolves adds
\* exactly its quantity to its Item, a line that does not resolve changes no Item,
\* inventoryItemsRestored is the number of lines that resolved and
\* incomeRecordsUpdated is the number of IncomeRecords that were deactivated.
C27_CancelIsBestEffort ==
  [][ (/\ last'.resp.op = "Cancel"
       /\ last'.resp.id \in DOMAIN slips
       /\ slips[last'.resp.id].status # "Cancelled")
      => LET lines == slips[last'.resp.id].products
             targets == [k \in 1..Len(lines) |-> CancelTarget(items, lines[k])]
         IN  /\ last'.resp.code = 200
             /\ last'.resp.session = "committed"
             /\ \A i \in 1..Len(items) :
                  items'[i].quantity = items[i].quantity + QuantityOn(lines, targets, i, 1)
             /\ last'.resp.inventoryItemsRestored
                  = Cardinality({k \in 1..Len(lines) : targets[k] # 0})
             /\ Len(incomes') = Len(incomes)
             /\ last'.resp.incomeRecordsUpdated
                  = Cardinality({n \in 1..Len(incomes) :
                                   incomes[n].isActive /\ ~incomes'[n].isActive}) ]_vars

\* a Cancel was committed although a line of the slip resolved to no Item: fewer
\* lines were restored than the slip has, and an IncomeRecord was deactivated
C27_Witness ==
  /\ last.resp.op = "Cancel"
  /\ last.resp.code = 200
  /\ last.resp.id \in DOMAIN slips
  /\ last.resp.inventoryItemsRestored < Len(slips[last.resp.id].products)
  /\ last.resp.incomeRecordsUpdated = 1
  /\ \A i \in 1..Len(items) : items[i].quantity = last.itemsBefore[i].quantity

\* C28: on Cancel the Item of each line is looked up by name/SKU and, when that
\* finds nothing, by the line's type attributes: every line that either lookup
\* resolves, also one that only the attributes resolve, has its quantity added
\* to that Item.
C28_CancelFallsBackToAttributes ==
  [][ (last'.resp.op = "Cancel" /\ last'.resp.code = 200)
      => LET lines == slips[last'.resp.id].products
             targets == [k \in 1..Len(lines) |-> DeleteTarget(items, lines[k])]
         IN  \A i \in 1..Len(items) :
               items'[i].quantity = items[i].quantity + QuantityOn(lines, targets, i, 1) ]_vars

\* C29: no Cancel, Update or Delete (nor any other step) ever removes an
\* IncomeRecord: the records present stay, each for the slip it was written for;
\* and after every step no IncomeRecord that refers to a Cancelled slip or to a
\* slip that no longer exists is active.
C29_IncomeKeptAndDeactivated ==
  [][ /\ Len(incomes') >= Len(incomes)
      /\ \A n \in 1..Len(incomes) :
           /\ incomes'[n].slipId = incomes[n].slipId
           /\ incomes'[n].slipNumber = incomes[n].slipNumber
      /\ \A n \in 1..Len(incomes') :
           incomes'[n].isActive
             => /\ incomes'[n].slipId \in DOMAIN slips'
                /\ slips'[incomes'[n].slipId].status # "Cancelled" ]_vars

\* after the Delete of one of two slips both IncomeRecords are still there: the
\* one of the deleted slip inactive, the one of the other slip active
C29_Witness ==
  /\ last.resp.op = "Delete"
  /\ last.resp.code = 200
  /\ Len(incomes) = 2
  /\ \E m, n \in 1..2 :
       /\ incomes[m].slipId = last.resp.id
       /\ incomes[m].slipId \notin DOMAIN slips
       /\ ~incomes[m].isActive
       /\ incomes[n].slipId \in DOMAIN slips
       /\ incomes[n].isActive

\* the collections with every Item that has no isActive field stored as active
WithAbsentAsActive(db) ==
  WithItems(db, [i \in 1..Len(db.items) |->
                   IF db.items[i].isActive = "absent"
                     THEN [db.items[i] EXCEPT !.isActive = "true"]
                     ELSE db.items[i]])

\* what the handler of the last request gives from the collections db
Replayed(db) ==
  CASE last'.resp.op = "Create" -> CreateSlip(db, last'.req, nextId, clock)
    [] last'.resp.op = "Cancel" -> CancelSlip(db, last'.resp.id, last'.req.reason, clock)
    [] last'.resp.op = "Update" -> UpdateSlip(db, last'.resp.id, last'.req, clock)
    [] last'.resp.op = "Delete" -> DeleteSlip(db, last'.resp.id, clock)

\* C30: in every Item lookup of Create, Cancel, Update and Delete an Item is
\* eligible exactly when its isActive is true or the field is absent: no step of
\* the workflow changes the quantity of a soft-deleted Item, and every step has
\* the response and leaves the quantities it would have if the Items without the
\* field were stored as active.
C30_ActiveOrAbsentIsEligible ==
  [][ last'.resp.op \in {"Create", "Cancel", "Update", "Delete"}
      => /\ \A i \in 1..Len(items) :
              items[i].isActive = "false" => items'[i].quantity = items[i].quantity
         /\ LET out == Replayed(WithAbsentAsActive(Db))
            IN  /\ last'.resp.code = out.resp.code
                /\ last'.resp.error = out.resp.error
                /\ \A i \in 1..Len(items) :
                     items'[i].quantity = out.db.items[i].quantity ]_vars

\* C31: every Create, Cancel, Update and Delete request, on whichever path it
\* leaves its handler, has answered with its transaction committed or aborted and
\* its session ended: no response is sent while the transaction is still open.
C31_SessionAlwaysClosed ==
  last.resp.op \in {"Create", "Cancel", "Update", "Delete"}
    => last.resp.session \in {"committed", "aborted"}

\* the step is a bulk wipe that went through: DELETE /items/all, or POST /reset
\* with the secret and the confirmation
BulkWipe == last'.resp.op \in {"DeleteAllItems", "Reset"} /\ last'.resp.code = 200

\* no Item is removed by a step that is not a bulk wipe, and a reset with a
\* wrong secret or confirmation deletes nothing
NoItemRemoved ==
  /\ ~BulkWipe
       => /\ Len(items') >= Len(items)
          /\ \A i \in 1..Len(items) :
               /\ items'[i].name = items[i].name
               /\ items'[i].sku = items[i].sku
  /\ (/\ last'.resp.op = "Reset"
      /\ (last'.req.secret # ExpectedSecret \/ last'.req.confirm # "RESET_ALL"))
       => last'.resp.code = 403 /\ SameCollections

\* the fields of an Item other than isActive and lastUpdated
KeptBySoftDelete(it) ==
  [f \in DOMAIN it \ {"isActive", "lastUpdated"} |-> it[f]]

C33_ActiveSkusUnique ==
  \A i, j \in 1..Len(items) :
    (/\ i # j
     /\ ActiveOrMissing(items[i])
     /\ ActiveOrMissing(items[j])
     /\ items[i].sku # <<>>)
      => items[i].sku # items[j].sku

\* the quantity of Item i that the slips which are not Cancelled hold
RECURSIVE OnSlips(_, _)
OnSlips(i, ids) ==
  IF ids = {} THEN 0
  ELSE LET id == CHOOSE x \in ids : TRUE
       IN  (IF slips[id].status # "Cancelled"
              THEN QuantityOn(slips[id].products, soldFrom[id], i, 1)
              ELSE 0) + OnSlips(i, ids \ {id})

\* every line of every slip is found, by each of the lookups that restore stock,
\* on the Item it was sold from
LinesResolveToItemSoldFrom ==
  \A id \in DOMAIN slips : \A k \in 1..Len(slips[id].products) :
    /\ soldFrom[id][k] # 0
    /\ CancelTarget(items, slips[id].products[k]) = soldFrom[id][k]
    /\ DeleteTarget(items, slips[id].products[k]) = soldFrom[id][k]
    /\ UpdateRestoreTarget(items, slips[id].products[k]) = soldFrom[id][k]

\* C34: stock is conserved. When every line resolves to the Item it was sold from
\* and no stock is edited through the items router, then after any sequence of
\* Create, Cancel, Update and Delete, for every Item, its quantity plus the
\* quantities of the lines on it in the slips that exist and are not Cancelled is
\* its initial quantity; so the stock of a slip is given back at most once.
C34_StockConserved ==
  LinesResolveToItemSoldFrom
    => \A i \in 1..Len(items) :
         items[i].quantity + OnSlips(i, DOMAIN slips) = Catalogue[i].quantity

\* C35: restoration targets the Item that was sold: for every line of a slip, the
\* Item that Cancel, Delete or the restoration pass of Update finds for it, and
\* adds the line's quantity to, is the Item from which Create (or the last Update)
\* took it, also when the line's name and its type attributes match different Items.
C35_RestoredToItemSoldFrom ==
  [][ (/\ last'.resp.op \in {"Cancel", "Delete", "Update"}
       /\ last'.resp.code = 200)
      => LET id == last'.resp.id
             lines == slips[id].products
             cancels == /\ last'.resp.op = "Update"
                        /\ last'.req.status = "Cancelled"
                        /\ slips[id].status # "Cancelled"
             exchanges == last'.resp.op = "Update" /\ last'.req.hasProducts
         IN  \A k \in 1..Len(lines) :
               LET targets ==
                     (IF last'.resp.op = "Cancel" \/ cancels
                        THEN {CancelTarget(items, lines[k])} ELSE {})
                     \cup (IF last'.resp.op = "Delete"
                             THEN {DeleteTarget(items, lines[k])} ELSE {})
                     \cup (IF exchanges
                             THEN {UpdateRestoreTarget(items, lines[k])} ELSE {})
               IN  \A target \in targets \ {0} : target = soldFrom[id][k] ]_vars

\* the requests of the sessions that were answered 200
Succeeded(op) ==
  {t \in Sessions : conc.txn[t].resp.op = op /\ conc.txn[t].resp.code = 200}

\* C36: when two Cancel requests, or a Cancel and a Delete, for one slip that is
\* not Cancelled run at the same time, the slip's stock is given back at most
\* once in all (no Item rises by more than the quantity of its lines), its
\* IncomeRecord is deactivated once, and at most one Cancel succeeds.
C36_OverlappingReversalsRestoreOnce ==
  conc.stage = "reverse"
    => LET lines == conc.start.slips[1].products
           targets == [k \in 1..Len(lines) |-> DeleteTarget(conc.start.items, lines[k])]
       IN  /\ \A i \in 1..Len(items) :
                items[i].quantity
                  <= conc.start.items[i].quantity + QuantityOn(lines, targets, i, 1)
           /\ conc.deactivated <= 1
           /\ Cardinality(Succeeded("Cancel")) <= 1

\* the request with the payment method the schemas default to
PaidInCash(req) == [req EXCEPT !.paymentMethod = "Cash"]

\* C37: a Create with valid lines and sufficient stock (one that commits when
\* paid in Cash) commits, with the Slip and the IncomeRecord both written, for
\* every paymentMethod the Slip model accepts: Cash, Udhar, Account, Card, UPI,
\* Bank Transfer, Credit and Other.
C37_EverySlipPaymentMethodCommits ==
  [][ (/\ last'.resp.op = "Create"
       /\ last'.req.paymentMethod \in SlipPaymentMethods
       /\ CreateSlip(Db, PaidInCash(last'.req), nextId, clock).resp.code = 201)
      => (/\ last'.resp.code = 201
          /\ last'.resp.id \in DOMAIN slips' \ DOMAIN slips
          /\ Len(incomes') = Len(incomes) + 1) ]_vars

\* C38: for every line priced by Create over non-negative prices: unitPrice >= 0,
\* discountAmount >= 0 and discountAmount <= basePrice x quantity, and for a
\* bulk-discounted line totalPrice + discountAmount = basePrice x quantity
\* (lines whose basePrice is below the 10-unit bulk discount included).
C38_DiscountWithinLineValue ==
  (/\ pricing.stage = "priced"
   /\ pricing.out.basePrice >= 0
   /\ (IsNum(pricing.line.unitPrice) => pricing.line.unitPrice.v >= 0))
  => LET l == pricing.out
     IN  /\ l.unitPrice >= 0
         /\ l.discountAmount >= 0
         /\ 2 * l.discountAmount <= l.basePrice * l.quantity
         /\ l.discountType = "bulk"
              => 2 * (l.totalPrice + l.discountAmount) = l.basePrice * l.quantity

====
